---- MODULE Spec2Model ----
(***************************************************************************)
(* A state-machine model of the connection-helper package                  *)
(* (src/connection_helper/sql.py, pgp.py and sec.py).                      *)
(*                                                                         *)
(* The package is a set of synchronous functions.  The model keeps the     *)
(* world they act on (file system, source database, environment, open      *)
(* connection handles) in variables, and has one action per function, or   *)
(* per loop step of a function whose intermediate states matter.           *)
(***************************************************************************)
EXTENDS Integers, Sequences, FiniteSets, TLC

VARIABLES
    fs,       \* file system: path -> content record (os.path.exists = path in DOMAIN)
    conns,    \* connection handles that are open (opened and not yet closed)
    pc,       \* position of the single thread of control ("idle" between calls)
    frame,    \* arguments and locals of the call in progress, or of the last call
    ret,      \* how the last finished call ended
    log,      \* library calls made by the current / last call, in order
    src_n,    \* source database: number of rows of table dbo.t
    env,      \* environment variables (after load_dotenv): name -> value
    server,   \* the database server: whether it answers, its databases and tables
    ncalls    \* number of calls made so far

world == <<src_n, env, server, ncalls>>

vars == <<fs, conns, pc, frame, ret, log, src_n, env, server, ncalls>>

-----------------------------------------------------------------------------
(* Bounds of the model *)

\* the source table dbo.t holds up to MaxBatches full batches (plus one row)
MaxBatches == 1
\* the value of top_n_rows when a row limit is asked for
TopRows == 1
\* rows of the small source tables hist.t and dbo.u
SmallRows == 2
\* calls of connect_sql, load_from_mssql and save_to_mssql in one behaviour
MaxCalls == 2

-----------------------------------------------------------------------------
(* Python values *)

\* how a call ended: returned None, returned a value, or raised
RetNone(fn)       == [fn |-> fn, kind |-> "None", value |-> "None"]
RetValue(fn, v)   == [fn |-> fn, kind |-> "value", value |-> v]
RetRaise(fn, exc) == [fn |-> fn, kind |-> "raise", value |-> exc]

\* no call in progress; no call finished yet
NoFrame == [fn |-> ""]
NoRet == [fn |-> "", kind |-> "None", value |-> "None"]

\* an optional argument: None, or a value
None == <<>>
Some(v) == <<v>>

\* a library call: what was called, on what, and with how many rows
EvN(op, on, n) == [op |-> op, on |-> on, n |-> n]
Ev(op, on) == EvN(op, on, 0)
LogHas(l, op) == \E i \in DOMAIN l : l[i].op = op
LogCount(l, op) == Cardinality({i \in DOMAIN l : l[i].op = op})

Min(a, b) == IF a < b THEN a ELSE b

\* Python truth value of a str | None
Falsy(v) == v = None \/ v = Some("")

\* a Python value of a metadata dictionary
PyStr(s) == [str |-> s]
PyInt(n) == [int |-> n]
PyList(items) == [list |-> items]

\* str.lower() on the strings the model uses
lower(s) ==
    CASE s = "Y" -> "y"
      [] s = "N" -> "n"
      [] s = "YES" -> "yes"
      [] s = "NVARCHAR" -> "nvarchar"
      [] OTHER -> s

-----------------------------------------------------------------------------
(* The source database behind con_source *)

\* sql.py:155
batchsize == 10000

\* a table name as written by the caller, split at "."
T1(a) == <<a>>
T2(a, b) == <<a, b>>
T3(a, b, c) == <<a, b, c>>

\* "." in item, item.split(".")[1]
HasDot(name) == Len(name) > 1
Split1(name) == name[2]

\* str.strip('[]') on the name parts the model uses
Strip(part) ==
    CASE part = "[dbo]" -> "dbo"
      [] part = "[t]" -> "t"
      [] OTHER -> part

\* the table a name denotes in the source database: [schema].[table],
\* database.schema.table, or a table of the default schema dbo
Resolve(name) ==
    CASE Len(name) = 1 -> <<"dbo", Strip(name[1])>>
      [] Len(name) = 2 -> <<Strip(name[1]), Strip(name[2])>>
      [] OTHER -> <<Strip(name[2]), Strip(name[3])>>

SourceTables == {<<"dbo", "t">>, <<"hist", "t">>, <<"dbo", "u">>}

SourceCols(t) == IF t = <<"dbo", "u">> THEN <<"k">> ELSE <<"a", "b">>

\* INFORMATION_SCHEMA.COLUMNS.DATA_TYPE of the columns
SourceTypes(t) ==
    CASE t = <<"dbo", "t">> -> <<"int", "NVARCHAR">>
      [] t = <<"hist", "t">> -> <<"bigint", "nchar">>
      [] OTHER -> <<"text">>

SourceSize(t) == IF t = <<"dbo", "t">> THEN src_n ELSE SmallRows

\* rows are told apart by the table they come from and their position
RowBase(t) == CASE t = <<"dbo", "t">> -> 0
                [] t = <<"hist", "t">> -> 1000000
                [] OTHER -> 2000000

SourceRows(t) == [i \in 1..SourceSize(t) |-> RowBase(t) + i]

\* result of "select [top n] * from <table>"
SelectRows(t, top_n_rows) ==
    IF top_n_rows # 0
    THEN SubSeq(SourceRows(t), 1, Min(top_n_rows, SourceSize(t)))
    ELSE SourceRows(t)

Sizes == {k * batchsize + d : k \in 0..MaxBatches, d \in {0, 1}}

\* con_source as the caller passes it: a SQLAlchemy Connection (its
\* engine.url gives host and database, "" when the URL has none), an object
\* whose engine.url is no URL, or None (connect_sql found no server)
Connection(host, database) == [kind |-> "Connection", host |-> host, database |-> database]
BadUrlCon == [kind |-> "BadUrl", host |-> "", database |-> ""]
NoneCon == [kind |-> "None", host |-> "", database |-> ""]

-----------------------------------------------------------------------------
(* Files and the databases stored in them *)

\* a path: directory, stem and suffix of the file name
Path(dir, stem, suffix) == <<dir, stem, suffix>>

FileDb == Path("", "out", "db")

EmptyDb(kind) == [kind |-> kind, tables |-> <<>>, views |-> {}]

\* a file that was there before any call of the package
OldFile == [kind |-> "old", tables |-> <<>>, views |-> {}]

Dir == [kind |-> "dir"]

\* a stored table: column names, column types, per column how the value was
\* derived from the source column ("direct" = as stored), and the rows
TableOf(cols, types, exprs, rows) ==
    [cols |-> cols, types |-> types, exprs |-> exprs, rows |-> rows]

\* a DataFrame written as a table: values as they are, types left to pandas
Table(cols, rows) ==
    TableOf(cols, [i \in DOMAIN cols |-> "pandas"], [i \in DOMAIN cols |-> "direct"], rows)

Handle(lib, on, by) == [lib |-> lib, on |-> on, by |-> by]

\* a connection to a database file
FileHandle(lib, path, by) == Handle(lib, [path |-> path], by)

SeqToSet(s) == {s[i] : i \in DOMAIN s}

\* pandas DataFrame.to_sql on a sqlite3 connection fails when the name is a
\* view or when the table exists (append) and lacks one of the columns
ToSqlFails(db, name, cols, if_exists) ==
    \/ name \in db.views
    \/ /\ if_exists = "append"
       /\ name \in DOMAIN db.tables
       /\ ~(SeqToSet(cols) \subseteq SeqToSet(db.tables[name].cols))

\* to_sql that replaces the table whatever if_exists says
to_sql_replace(db, name, cols, rows, if_exists) ==
    [db EXCEPT !.tables = (name :> Table(cols, rows)) @@ db.tables]

\* DataFrame.to_sql(name, con, if_exists=..., index=False)
to_sql(db, name, cols, rows, if_exists) ==
    IF if_exists = "append" /\ name \in DOMAIN db.tables
    THEN [db EXCEPT !.tables[name].rows = @ \o rows]
    ELSE [db EXCEPT !.tables = (name :> Table(cols, rows)) @@ db.tables]

Remove(f, key) == [k \in DOMAIN f \ {key} |-> f[k]]

-----------------------------------------------------------------------------
(* connect_sql *)

\* the environment the process runs in; a name not in it is unset
Env == [SQL_HOST |-> "srv", SQL_DB |-> "db1", SQL_USER |-> "sa", SQL_EMPTY |-> ""]

\* os.getenv(name)
getenv(name) == IF name \in DOMAIN env THEN Some(env[name]) ELSE None

\* the one database server, at host "srv", with database db1
Server(up) == [up |-> up, dbs |-> {"db1"}, tables |-> <<>>]

Reachable(host) == server.up /\ host = Some("srv")

\* the connection URL, by its parts
Url(scheme, user, pw, host, db) ==
    [scheme |-> scheme, user |-> user, pw |-> pw, host |-> host, db |-> db]

\* the file a sqlite URL names
DbPath(db) == Path("", db, "")

\* only the host is looked at
HostAndDbMissing_host(host, db) == Falsy(host)

\* if not host or not db
HostAndDbMissing(host, db) == Falsy(host) \/ Falsy(db)

\* What connect_sql does, as a record: how it ends (ret), the library calls it
\* makes (calls), the connection it opens (opened), and the databases and
\* files it leaves.  lib_raises is the library outcome the code cannot know:
\* for a server that does not answer, whether database_exists raises (or
\* answers False); for sqlite, whether opening the connection raises.
ConnectSql(db, host, user, pw, use_env, dbms, ensure_db_exists, lib_raises, by) ==
    LET host_ == IF use_env THEN getenv(host) ELSE Some(host)
        db_ == IF use_env THEN getenv(db) ELSE Some(db)
        user_ == IF use_env /\ user # "" THEN getenv(user) ELSE Some(user)
        pw_ == IF use_env /\ pw # "" THEN getenv(pw) ELSE Some(pw)
        c0 == IF use_env THEN <<Ev("load_dotenv", ".env")>> ELSE <<>>
        same == [calls |-> c0, opened |-> {}, dbs |-> server.dbs, fs |-> fs]
        url == CASE dbms = "mssql" -> Url("mssql", user_, pw_, host_, db_)
                 [] dbms = "sqlite" -> Url("sqlite", None, None, None, db_)
                 [] OTHER -> Url("postgresql+psycopg2", user_, pw_, host_, db_)
        con == Handle("sqlalchemy", url, by)
        c1 == Append(c0, Ev("create_engine", url))
        isfile == dbms = "sqlite"
        up == IF isfile THEN TRUE ELSE Reachable(host_)
        there == IF isfile THEN DbPath(db_[1]) \in DOMAIN fs ELSE db_[1] \in server.dbs
        \* database_exists, create_database
        ensure == ensure_db_exists
        c2 == IF ~ensure THEN c1
              ELSE IF up /\ there THEN Append(c1, Ev("database_exists", url))
              ELSE IF ~up /\ lib_raises THEN Append(c1, Ev("database_exists", url))
              ELSE c1 \o <<Ev("database_exists", url), Ev("create_database", url)>>
        created == ensure /\ up /\ ~there
        dbs2 == IF created /\ ~isfile THEN server.dbs \cup {db_[1]} ELSE server.dbs
        fs2 == IF created /\ isfile THEN (DbPath(db_[1]) :> EmptyDb("sqlite")) @@ fs ELSE fs
        \* engine.connect() inside try / except Exception
        connects == IF isfile THEN ~lib_raises
                    ELSE up /\ db_[1] \in dbs2
        fs3 == IF connects /\ isfile /\ DbPath(db_[1]) \notin DOMAIN fs2
               THEN (DbPath(db_[1]) :> EmptyDb("sqlite")) @@ fs2 ELSE fs2
    IN  IF HostAndDbMissing(host_, db_)
        THEN [same EXCEPT !.calls = c0] @@ [ret |-> RetRaise(by, "ValueError")]
        ELSE IF dbms \notin {"mssql", "sqlite", "postgres"}
        THEN same @@ [ret |-> RetNone(by)]
        ELSE IF ensure /\ ~up
        THEN [calls |-> c2, opened |-> {}, dbs |-> server.dbs, fs |-> fs,
              ret |-> RetRaise(by, "OperationalError")]
        ELSE IF connects
        THEN [calls |-> Append(c2, Ev("engine.connect", url)), opened |-> {con},
              dbs |-> dbs2, fs |-> fs3, ret |-> RetValue(by, con)]
        ELSE [calls |-> Append(c2, Ev("engine.connect", url)), opened |-> {},
              dbs |-> dbs2, fs |-> fs2, ret |-> RetNone(by)]

connect_sql(db, host, user, pw, use_env, dbms, ensure_db_exists, lib_raises) ==
    /\ pc = "idle"
    /\ ncalls < MaxCalls
    /\ ncalls' = ncalls + 1
    /\ LET r == ConnectSql(db, host, user, pw, use_env, dbms, ensure_db_exists,
                           lib_raises, "connect_sql")
       IN /\ ret' = r.ret
          /\ log' = r.calls
          /\ conns' = conns \cup r.opened
          /\ server' = [server EXCEPT !.dbs = r.dbs]
          /\ fs' = r.fs
          /\ frame' = [fn |-> "connect_sql",
                       host |-> IF use_env THEN getenv(host) ELSE Some(host),
                       db |-> IF use_env THEN getenv(db) ELSE Some(db),
                       dbms |-> dbms, use_env |-> use_env,
                       ensure_db_exists |-> ensure_db_exists]
    /\ UNCHANGED <<pc, src_n, env>>

-----------------------------------------------------------------------------
(* load_from_mssql, save_to_mssql *)

\* a DataFrame: column names and rows of values
DataFrame(cols, rows) == [cols |-> cols, rows |-> rows]

\* pd.read_sql(query, con) for a query that selects a whole table
load_from_mssql(query, host, db, use_env) ==
    /\ pc = "idle"
    /\ ncalls < MaxCalls
    /\ ncalls' = ncalls + 1
    /\ LET host_ == IF use_env THEN getenv(host) ELSE Some(host)
           db_ == IF use_env THEN getenv(db) ELSE Some(db)
           c0 == IF use_env THEN <<Ev("load_dotenv", ".env")>> ELSE <<>>
           r == ConnectSql(db_[1], host_[1], "", "", FALSE, "mssql", FALSE, FALSE,
                           "load_from_mssql")
           t == Resolve(query)
       IN /\ frame' = [fn |-> "load_from_mssql", host |-> host_, db |-> db_]
          /\ IF Falsy(host_) \/ Falsy(db_)
             THEN /\ ret' = RetRaise("load_from_mssql", "ValueError")
                  /\ log' = c0
                  /\ UNCHANGED conns
             ELSE /\ conns' = conns \cup r.opened
                  /\ log' = c0 \o r.calls \o <<Ev("read_sql", query)>>
                  /\ ret' = IF r.opened = {}
                            THEN RetRaise("load_from_mssql", "AttributeError")
                            ELSE IF t \notin SourceTables
                            THEN RetRaise("load_from_mssql", "ProgrammingError")
                            ELSE RetValue("load_from_mssql",
                                          DataFrame(SourceCols(t), SourceRows(t)))
    /\ UNCHANGED <<fs, pc, src_n, env, server>>

\* df_["created_at"] = now
AddTimestamp(df) ==
    DataFrame(Append(df.cols, "created_at"),
              [i \in DOMAIN df.rows |-> Append(df.rows[i], PyStr("now"))])

\* df_.insert(0, "id", range(1, len(df_) + 1))
AddId(df) ==
    DataFrame(<<"id">> \o df.cols,
              [i \in DOMAIN df.rows |-> <<PyInt(i)>> \o df.rows[i]])

HasColumn(df, col) == \E i \in DOMAIN df.cols : df.cols[i] = col

\* the frame written to the table
SavedFrame(df, add_id, add_timestamp) ==
    LET d1 == IF add_timestamp /\ ~HasColumn(df, "created_at") THEN AddTimestamp(df) ELSE df
    IN IF add_id /\ ~HasColumn(d1, "id") THEN AddId(d1) ELSE d1

\* no answer declines
Declined_never(user_input) == FALSE

\* user_input.lower() != "y"
Declined(user_input) == lower(user_input) # "y"

\* con is None, or a connection the caller holds; user_input is what the user
\* types when asked
save_to_mssql(df, con, host, db, table_name, schema_name, use_env, add_id, add_timestamp, ask_user, user_input) ==
    /\ pc = "idle"
    /\ ncalls < MaxCalls
    /\ ncalls' = ncalls + 1
    /\ LET host_ == IF con = None /\ use_env THEN getenv(host) ELSE Some(host)
           db_ == IF con = None /\ use_env THEN getenv(db) ELSE Some(db)
           asked == IF ask_user THEN <<Ev("input", user_input)>> ELSE <<>>
           c0 == asked \o (IF con = None /\ use_env THEN <<Ev("load_dotenv", ".env")>> ELSE <<>>)
           r == ConnectSql(db_[1], host_[1], "", "", FALSE, "mssql", FALSE, FALSE,
                           "save_to_mssql")
           df_ == SavedFrame(df, add_id, add_timestamp)
           args == [fn |-> "save_to_mssql", df |-> df, con |-> con, ask_user |-> ask_user,
                    user_input |-> IF ask_user THEN user_input ELSE "",
                    add_id |-> add_id, add_timestamp |-> add_timestamp,
                    table |-> <<schema_name, table_name>>,
                    host |-> Some(host), db |-> Some(db)]
       IN IF ask_user /\ Declined(user_input)
          THEN /\ frame' = args
               /\ ret' = RetNone("save_to_mssql")
               /\ log' = asked
               /\ UNCHANGED <<conns, server>>
          ELSE IF con = None /\ (Falsy(host_) \/ Falsy(db_))
          THEN /\ frame' = [args EXCEPT !.host = host_, !.db = db_]
               /\ ret' = RetRaise("save_to_mssql", "ValueError")
               /\ log' = c0
               /\ UNCHANGED <<conns, server>>
          ELSE IF con = None /\ r.opened = {}
          THEN \* connect_sql returned None: to_sql has nothing to write to
               /\ frame' = [args EXCEPT !.host = host_, !.db = db_]
               /\ ret' = RetRaise("save_to_mssql", "AttributeError")
               /\ log' = c0 \o r.calls \o <<EvN("to_sql", <<schema_name, table_name>>, 0)>>
               /\ UNCHANGED <<conns, server>>
          ELSE /\ frame' = [args EXCEPT !.host = host_, !.db = db_]
               /\ ret' = RetNone("save_to_mssql")
               /\ log' = c0 \o (IF con = None THEN r.calls ELSE <<>>)
                            \o <<EvN("to_sql", <<schema_name, table_name>>, Len(df_.rows))>>
               /\ conns' = IF con = None THEN conns \cup r.opened ELSE conns
               /\ server' = [server EXCEPT !.tables =
                                (<<schema_name, table_name>> :> df_) @@ @]
    /\ UNCHANGED <<fs, pc, src_n, env>>

-----------------------------------------------------------------------------
(* load_sql_to_sqlite *)

\* an element of list_tables: a string, or a list of two strings
StrItem(name) == [isList |-> FALSE, sql |-> name, friendly |-> ""]
ListItem(name, friendly) == [isList |-> TRUE, sql |-> name, friendly |-> friendly]

is_list_nested(list_tables) == \A i \in DOMAIN list_tables : list_tables[i].isList

\* the name the query selects from; a list formatted into the query text
\* names no table
table_sql(item, nested) ==
    IF nested \/ ~item.isList THEN item.sql ELSE <<"[", "]">>

\* the name of the destination table
table_friendly(item, nested) ==
    IF nested
    THEN IF item.friendly # "" THEN item.friendly
         ELSE IF ~HasDot(item.sql) THEN item.sql[1] ELSE Split1(item.sql)
    ELSE IF ~HasDot(item.sql) THEN item.sql[1] ELSE Split1(item.sql)

\* a fetch that delivers all the rows that are left
fetchmany_all(result, pos, size) == SubSeq(result, pos + 1, Len(result))

\* proxy.fetchmany(batchsize) on a cursor that has delivered pos rows
fetchmany(result, pos, size) == SubSeq(result, pos + 1, Min(pos + size, Len(result)))


\* pd.DataFrame.from_dict(dict_meta, orient="index").T: one row, the keys as columns
MetaCols(dict_meta) == [i \in DOMAIN dict_meta |-> dict_meta[i][1]]
MetaRow(dict_meta) == [i \in DOMAIN dict_meta |-> dict_meta[i][2]]

\* create view if not exists <key> as <value>, for each item of dict_views
CreateViews(db, dict_views) ==
    IF dict_views = None THEN db
    ELSE [db EXCEPT !.views = @ \cup {dict_views[1][i][1] : i \in DOMAIN dict_views[1]}]

\* the rows of the transposed frame: one row of the values, or, when the
\* values are lists, one row per list position
MetaRows(dict_meta) ==
    IF dict_meta # <<>> /\ "list" \in DOMAIN dict_meta[1][2]
    THEN [r \in DOMAIN dict_meta[1][2].list |->
             [i \in DOMAIN dict_meta |-> PyStr(dict_meta[i][2].list[r])]]
    ELSE <<MetaRow(dict_meta)>>

\* to_sql cannot create a table without columns
MetaRaises(dict_meta) == dict_meta = Some(<<>>)

WriteMetaSqlite(db, dict_meta) ==
    IF dict_meta = None \/ MetaRaises(dict_meta) THEN db
    ELSE to_sql(db, "_meta", MetaCols(dict_meta[1]), MetaRows(dict_meta[1]), "replace")

\* the existence check left out
AlreadyExists_never(file_db) == FALSE

\* a file that holds no table yet does not count: the load is tried again
AlreadyExists_loaded(file_db) == file_db \in DOMAIN fs /\ fs[file_db].tables # <<>>

\* os.path.exists(file_db) at the head of both loaders
AlreadyExists(file_db) == file_db \in DOMAIN fs

SqliteFrame(con_source, file_db, list_tables, dict_meta, dict_views, top_n_rows) ==
    [fn |-> "load_sql_to_sqlite", con_source |-> con_source, file_db |-> file_db,
     list_tables |-> list_tables, dict_meta |-> dict_meta, dict_views |-> dict_views,
     top_n_rows |-> top_n_rows,
     con |-> FileHandle("sqlite3", file_db, "load_sql_to_sqlite"),
     i |-> 1, table |-> <<>>, friendly |-> "", pos |-> 0]

\* entry: the existence check, the connection, the views and the _meta table
load_sql_to_sqlite(con_source, file_db, list_tables, dict_meta, dict_views, top_n_rows) ==
    /\ pc = "idle"
    /\ IF AlreadyExists(file_db)
       THEN /\ ret' = RetNone("load_sql_to_sqlite")
            /\ log' = <<Ev("os.path.exists", file_db)>>
            /\ UNCHANGED <<fs, conns, pc, frame, world>>
       ELSE /\ frame' = SqliteFrame(con_source, file_db, list_tables, dict_meta, dict_views,
                                    top_n_rows)
            /\ fs' = (file_db :> WriteMetaSqlite(CreateViews(EmptyDb("sqlite"), dict_views),
                                                 dict_meta)) @@ fs
            /\ conns' = conns \cup {frame'.con}
            /\ log' = <<Ev("os.path.exists", file_db), Ev("sqlite3.connect", file_db)>>
            /\ IF MetaRaises(dict_meta)
               THEN \* the exception of to_sql leaves the function
                    /\ ret' = RetRaise("load_sql_to_sqlite", "OperationalError")
                    /\ UNCHANGED pc
               ELSE /\ pc' = "sqlite_for"
                    /\ UNCHANGED ret
            /\ UNCHANGED world

\* for item in list_tables: run the query; after the last item close and return
load_sql_to_sqlite_for ==
    /\ pc = "sqlite_for"
    /\ LET lt == frame.list_tables
           nested == is_list_nested(lt)
       IN IF frame.i > Len(lt)
          THEN /\ conns' = conns \ {frame.con}
               /\ log' = Append(log, Ev("close", frame.file_db))
               /\ ret' = RetNone("load_sql_to_sqlite")
               /\ pc' = "idle"
               /\ frame' = NoFrame
               /\ UNCHANGED <<fs, world>>
          ELSE IF frame.con_source.kind = "None"
          THEN \* None has no execution_options
               /\ ret' = RetRaise("load_sql_to_sqlite", "AttributeError")
               /\ pc' = "idle"
               /\ frame' = NoFrame
               /\ UNCHANGED <<fs, conns, log, world>>
          ELSE LET t == Resolve(table_sql(lt[frame.i], nested))
               IN IF t \notin SourceTables
                  THEN \* con_source.execute raises, nothing catches it
                       /\ ret' = RetRaise("load_sql_to_sqlite", "ProgrammingError")
                       /\ log' = Append(log, Ev("execute", "con_source"))
                       /\ pc' = "idle"
                       /\ frame' = NoFrame
                       /\ UNCHANGED <<fs, conns, world>>
                  ELSE /\ frame' = [frame EXCEPT !.table = t, !.pos = 0,
                                       !.friendly = table_friendly(lt[frame.i], nested)]
                       /\ log' = Append(log, Ev("execute", "con_source"))
                       /\ pc' = "sqlite_while"
                       /\ UNCHANGED <<fs, conns, ret, world>>

\* one iteration of the fetch loop: fetchmany, to_sql, break on an empty batch
load_sql_to_sqlite_while ==
    /\ pc = "sqlite_while"
    /\ LET result == SelectRows(frame.table, frame.top_n_rows)
           batch == fetchmany(result, frame.pos, batchsize)
           cols == SourceCols(frame.table)
           db == fs[frame.file_db]
           calls == <<EvN("fetchmany", frame.friendly, Len(batch)),
                      EvN("to_sql", frame.friendly, Len(batch))>>
       IN IF ToSqlFails(db, frame.friendly, cols, "append")
          THEN /\ ret' = RetRaise("load_sql_to_sqlite", "OperationalError")
               /\ log' = log \o calls
               /\ pc' = "idle"
               /\ frame' = NoFrame
               /\ UNCHANGED <<fs, conns, world>>
          ELSE /\ fs' = [fs EXCEPT ![frame.file_db] =
                            to_sql(db, frame.friendly, cols, batch, "append")]
               /\ log' = log \o calls
               /\ IF batch = <<>>
                  THEN /\ pc' = "sqlite_for"
                       /\ frame' = [frame EXCEPT !.i = @ + 1]
                  ELSE /\ pc' = "sqlite_while"
                       /\ frame' = [frame EXCEPT !.pos = @ + Len(batch)]
               /\ UNCHANGED <<conns, ret, world>>

-----------------------------------------------------------------------------
(* load_mssql_to_duckdb *)

local_dir == Path("", ".local", "")

\* os.path.join(local_dir, f"{table_friendly}.csv") and csv_path + ".tmp"
csv_path(friendly) == Path(".local", friendly, "csv")
temp_csv_path(friendly) == Path(".local", friendly, "csv.tmp")

\* str.lower() on the type names the source reports
Lower(type) == lower(type)

sql_to_duckdb_type_map ==
    [bit |-> "BOOLEAN", tinyint |-> "TINYINT", smallint |-> "SMALLINT",
     int |-> "INTEGER", bigint |-> "BIGINT", real |-> "REAL", float |-> "DOUBLE",
     decimal |-> "DECIMAL", numeric |-> "DECIMAL", money |-> "DECIMAL(19,4)",
     smallmoney |-> "DECIMAL(10,4)", char |-> "VARCHAR", varchar |-> "VARCHAR",
     nvarchar |-> "VARCHAR", text |-> "VARCHAR", ntext |-> "VARCHAR",
     date |-> "DATE", datetime |-> "TIMESTAMP", datetime2 |-> "TIMESTAMP",
     smalldatetime |-> "TIMESTAMP", time |-> "TIME", uniqueidentifier |-> "UUID",
     binary |-> "BLOB", varbinary |-> "BLOB", image |-> "BLOB"]

\* sql_to_duckdb_type_map.get(sql_type)
MapGet_nodefault(sql_type) ==
    IF sql_type \in DOMAIN sql_to_duckdb_type_map
    THEN sql_to_duckdb_type_map[sql_type] ELSE "None"

\* sql_to_duckdb_type_map.get(sql_type, 'VARCHAR')
MapGet(sql_type) ==
    IF sql_type \in DOMAIN sql_to_duckdb_type_map
    THEN sql_to_duckdb_type_map[sql_type] ELSE "VARCHAR"

\* schema and table name the INFORMATION_SCHEMA query asks for
sql_schema(name) == IF HasDot(name) THEN Strip(name[1]) ELSE "dbo"
sql_table_name(name) == IF HasDot(name) THEN Strip(name[2]) ELSE Strip(name[1])

\* SELECT DATA_TYPE FROM INFORMATION_SCHEMA.COLUMNS ... .scalar_one_or_none()
TypeQuery(schema, tbl, col) ==
    IF /\ <<schema, tbl>> \in SourceTables
       /\ \E i \in DOMAIN SourceCols(<<schema, tbl>>) : SourceCols(<<schema, tbl>>)[i] = col
    THEN Some(SourceTypes(<<schema, tbl>>)
                [CHOOSE i \in DOMAIN SourceCols(<<schema, tbl>>) :
                     SourceCols(<<schema, tbl>>)[i] = col])
    ELSE None

\* (col_name, sql_type) of every column of SELECT TOP 1 *, in order
source_columns_with_types(name) ==
    LET cols == SourceCols(Resolve(name))
    IN [i \in DOMAIN cols |->
           LET r == TypeQuery(sql_schema(name), sql_table_name(name), cols[i])
           IN <<cols[i], IF r # None THEN Lower(r[1]) ELSE "varchar">>]

\* the DuckDB type of a (col_name, sql_type) pair
duckdb_type(ct) == MapGet(ct[2])

CharTypes == {"char", "varchar", "nvarchar", "text", "ntext"}

\* every column selected as it is
select_column_for_bcp_direct(ct) == "direct"

\* the expression the bcp query selects for a column
select_column_for_bcp(ct) == IF ct[2] \in CharTypes THEN "cleansed" ELSE "direct"

str(v) ==
    CASE "int" \in DOMAIN v -> PyStr(ToString(v.int))
      [] "list" \in DOMAIN v -> PyStr([repr |-> v.list])
      [] OTHER -> v

\* CREATE TABLE _meta (<key> VARCHAR, ...); INSERT INTO _meta VALUES (str(v), ...)
WriteMetaDuckdb(db, dict_meta) ==
    IF dict_meta = None THEN db
    ELSE IF dict_meta = Some(<<>>) THEN db  \* CREATE TABLE _meta (): ddb.Error, caught
    ELSE LET d == dict_meta[1]
         IN [db EXCEPT !.tables = ("_meta" :>
                TableOf(MetaCols(d), [i \in DOMAIN d |-> "VARCHAR"],
                        [i \in DOMAIN d |-> "direct"],
                        <<[i \in DOMAIN d |-> str(d[i][2])]>>)) @@ db.tables]

DuckFrame(con_source, file_db, list_tables, dict_meta, delete_csv_after, top_n_rows) ==
    [fn |-> "load_mssql_to_duckdb", con_source |-> con_source, file_db |-> file_db,
     list_tables |-> list_tables, dict_meta |-> dict_meta,
     delete_csv_after |-> delete_csv_after, top_n_rows |-> top_n_rows,
     con |-> FileHandle("duckdb", file_db, "load_mssql_to_duckdb"),
     i |-> 1, table |-> <<>>, friendly |-> "", columns |-> <<>>]

\* entry: existence check, DuckDB connection, .local, _meta, server and database name
load_mssql_to_duckdb(con_source, file_db, list_tables, dict_meta, delete_csv_after, top_n_rows) ==
    /\ pc = "idle"
    /\ IF AlreadyExists(file_db)
       THEN /\ ret' = RetNone("load_mssql_to_duckdb")
            /\ log' = <<Ev("os.path.exists", file_db)>>
            /\ UNCHANGED <<fs, conns, pc, frame, world>>
       ELSE LET f == DuckFrame(con_source, file_db, list_tables, dict_meta,
                               delete_csv_after, top_n_rows)
            IN
            /\ fs' = (file_db :> WriteMetaDuckdb(EmptyDb("duckdb"), dict_meta))
                     @@ (local_dir :> Dir) @@ fs
            /\ conns' = conns \cup {f.con}
            /\ log' = <<Ev("os.path.exists", file_db), Ev("duckdb.connect", file_db),
                        Ev("os.makedirs", local_dir)>>
            /\ IF \/ con_source.kind # "Connection"
                  \/ con_source.host = ""
                  \/ con_source.database = ""
               THEN \* ValueError or AttributeError, caught: print and return
                    /\ ret' = RetNone("load_mssql_to_duckdb")
                    /\ UNCHANGED <<pc, frame>>
               ELSE /\ pc' = "duck_for"
                    /\ frame' = f
                    /\ UNCHANGED ret
            /\ UNCHANGED world

\* for item in list_tables: read the schema and create the DuckDB table;
\* after the last item close and return
load_mssql_to_duckdb_for ==
    /\ pc = "duck_for"
    /\ LET lt == frame.list_tables
           nested == is_list_nested(lt)
       IN IF frame.i > Len(lt)
          THEN /\ conns' = conns \ {frame.con}
               /\ log' = Append(log, Ev("close", frame.file_db))
               /\ ret' = RetNone("load_mssql_to_duckdb")
               /\ pc' = "idle"
               /\ frame' = NoFrame
               /\ UNCHANGED <<fs, world>>
          ELSE LET name == table_sql(lt[frame.i], nested)
                   friendly == table_friendly(lt[frame.i], nested)
               IN IF Resolve(name) \notin SourceTables
                  THEN \* SELECT TOP 1 raises, caught: continue
                       /\ frame' = [frame EXCEPT !.i = @ + 1]
                       /\ log' = Append(log, Ev("execute", "con_source"))
                       /\ UNCHANGED <<fs, conns, pc, ret, world>>
                  ELSE LET cts == source_columns_with_types(name)
                           tbl == TableOf([k \in DOMAIN cts |-> cts[k][1]],
                                          [k \in DOMAIN cts |-> duckdb_type(cts[k])],
                                          [k \in DOMAIN cts |-> "none"], <<>>)
                       IN /\ fs' = [fs EXCEPT ![frame.file_db].tables =
                                       (friendly :> tbl) @@ @]
                          /\ frame' = [frame EXCEPT !.table = name, !.friendly = friendly,
                                                    !.columns = cts]
                          /\ log' = log \o <<Ev("execute", "con_source"),
                                             Ev("CREATE TABLE", friendly)>>
                          /\ pc' = "duck_bcp"
                          /\ UNCHANGED <<conns, ret, world>>

BcpOutcomes == {"bcp_failed", "bcp_failed_partial", "bcp_missing", "bcp_nofile",
                "post_error", "copy_error", "ok"}

\* the file src copied to dst, src left where it is
os_replace_copy(f, src, dst) == (dst :> f[src]) @@ f

\* os.replace(src, dst)
os_replace(f, src, dst) == (dst :> f[src]) @@ Remove(f, src)

\* an except clause caught the exception and printed its message
Except(exc) == Ev("except", exc)

\* the rest of the iteration: bcp, post-processing, COPY, optional delete
load_mssql_to_duckdb_bcp(outcome) ==
    /\ pc = "duck_bcp"
    /\ LET csv == csv_path(frame.friendly)
           tmp == temp_csv_path(frame.friendly)
           exprs == [k \in DOMAIN frame.columns |-> select_column_for_bcp(frame.columns[k])]
           rows == SelectRows(Resolve(frame.table),
                              IF frame.top_n_rows > 0 THEN frame.top_n_rows ELSE 0)
           raw == [kind |-> "csv", exprs |-> exprs, rows |-> rows, nul_stripped |-> FALSE]
           clean == [raw EXCEPT !.nul_stripped = TRUE]
           bcp == EvN("subprocess.run", csv, Len(rows))
           \* the files after bcp and after the post-processing
           written == (csv :> raw) @@ fs
           cleaned == os_replace((tmp :> clean) @@ written, tmp, csv)
       IN /\ CASE outcome = "bcp_failed" ->
                    \* CalledProcessError, no file written
                    /\ log' = log \o <<bcp, Except("CalledProcessError")>>
                    /\ UNCHANGED fs
              [] outcome = "bcp_failed_partial" ->
                    \* CalledProcessError after bcp started to write
                    /\ log' = log \o <<bcp, Except("CalledProcessError")>>
                    /\ fs' = written
              [] outcome = "bcp_missing" ->
                    \* no bcp on the PATH: subprocess.run raises FileNotFoundError
                    /\ log' = log \o <<bcp, Except("FileNotFoundError")>>
                    /\ UNCHANGED fs
              [] outcome = "bcp_nofile" ->
                    \* bcp ends with 0 and there is no file to read
                    /\ csv \notin DOMAIN fs
                    /\ log' = log \o <<bcp, Except("FileNotFoundError")>>
                    /\ UNCHANGED fs
              [] outcome = "post_error" ->
                    \* writing the cleaned copy fails
                    /\ log' = log \o <<bcp, Except("OSError")>>
                    /\ fs' = (tmp :> clean) @@ written
              [] outcome = "copy_error" ->
                    /\ log' = log \o <<bcp, Ev("os.replace", csv), Ev("COPY", frame.friendly),
                                       Except("duckdb.Error")>>
                    /\ fs' = cleaned
              [] OTHER ->
                    /\ log' = log \o <<bcp, Ev("os.replace", csv),
                                       EvN("COPY", frame.friendly, Len(rows))>>
                                 \o (IF frame.delete_csv_after
                                     THEN <<Ev("os.remove", csv)>> ELSE <<>>)
                    /\ fs' = LET loaded == [cleaned EXCEPT ![frame.file_db].tables[frame.friendly] =
                                               [@ EXCEPT !.exprs = exprs, !.rows = @ \o rows]]
                             IN IF frame.delete_csv_after
                                THEN Remove(loaded, csv)
                                ELSE loaded
          /\ frame' = [frame EXCEPT !.i = @ + 1]
          /\ pc' = "duck_for"
          /\ UNCHANGED <<conns, ret, world>>

-----------------------------------------------------------------------------
(* load_sqlite_to_duckdb *)

\* LIMIT 1000
DebugLimit == 1000

\* Path.with_suffix
with_suffix(path, suffix) == Path(path[1], path[2], suffix)

\* the orders in which the elements of a set can be listed
Perms(S) ==
    {s \in [1..Cardinality(S) -> S] : \A i, j \in DOMAIN s : s[i] = s[j] => i = j}

\* SELECT * FROM table [LIMIT 1000] read into a DataFrame and stored with
\* CREATE TABLE table AS SELECT * FROM df_view
ExportedTable(tbl, debug) ==
    [tbl EXCEPT !.types = [i \in DOMAIN tbl.cols |-> "pandas"],
                !.rows = IF debug THEN SubSeq(@, 1, Min(DebugLimit, Len(@))) ELSE @]

\* the loop over tables from item k on: what the DuckDB file holds after it
\* and the calls made; CREATE TABLE raises for a name that is there already
\* and ends the loop
RECURSIVE ExportTables(_, _, _, _, _)
ExportTables(src, dst, tables, k, debug) ==
    IF k > Len(tables) THEN [db |-> dst, calls |-> <<>>]
    ELSE LET table == tables[k]
             df == ExportedTable(src.tables[table], debug)
             read == EvN("read_sql_query", table, Len(df.rows))
         IN IF table \in DOMAIN dst.tables \/ table \in dst.views
            THEN [db |-> dst, calls |-> <<read, Ev("duckdb.Error", table)>>]
            ELSE LET rest == ExportTables(src, [dst EXCEPT !.tables = (table :> df) @@ @],
                                          tables, k + 1, debug)
                 IN [rest EXCEPT !.calls = <<read, Ev("CREATE TABLE AS", table)>> \o @]

load_sqlite_to_duckdb(sqlite_path, debug) ==
    /\ pc = "idle"
    /\ ncalls < MaxCalls
    /\ ncalls' = ncalls + 1
    /\ frame' = [fn |-> "load_sqlite_to_duckdb", sqlite_path |-> sqlite_path,
                 debug |-> debug]
    /\ LET duckdb_path == with_suffix(sqlite_path, "duckdb")
           sqlite_conn == FileHandle("sqlite3", sqlite_path, "load_sqlite_to_duckdb")
           opened == <<Ev("exists", sqlite_path), Ev("sqlite3.connect", sqlite_path),
                       Ev("duckdb.connect", duckdb_path)>>
           dst == IF duckdb_path \in DOMAIN fs THEN fs[duckdb_path] ELSE EmptyDb("duckdb")
       IN IF sqlite_path \notin DOMAIN fs \/ sqlite_path[3] \notin {"sqlite", "db"}
          THEN /\ ret' = RetRaise("load_sqlite_to_duckdb", "ValueError")
               /\ log' = <<Ev("exists", sqlite_path)>>
               /\ UNCHANGED <<fs, conns>>
          ELSE IF dst.kind # "duckdb"
          THEN \* ddb.connect raises on a file that is no DuckDB database,
               \* before the try block: sqlite_conn stays open
               /\ ret' = RetRaise("load_sqlite_to_duckdb", "IOException")
               /\ log' = opened
               /\ conns' = conns \cup {sqlite_conn}
               /\ UNCHANGED fs
          ELSE IF fs[sqlite_path].kind # "sqlite"
          THEN \* the query on sqlite_master raises DatabaseError; finally
               \* closes both connections and its return drops the exception
               /\ ret' = RetNone("load_sqlite_to_duckdb")
               /\ log' = opened \o <<Ev("sqlite3.DatabaseError", sqlite_path),
                                    Ev("close", sqlite_path), Ev("close", duckdb_path)>>
               /\ fs' = (duckdb_path :> dst) @@ fs
               /\ UNCHANGED conns
          ELSE \E tables \in Perms(DOMAIN fs[sqlite_path].tables) :
                 LET r == ExportTables(fs[sqlite_path], dst, tables, 1, debug)
                 IN /\ ret' = RetNone("load_sqlite_to_duckdb")
                    /\ log' = opened \o r.calls
                               \o <<Ev("close", sqlite_path), Ev("close", duckdb_path)>>
                    /\ fs' = (duckdb_path :> r.db) @@ fs
                    /\ UNCHANGED conns
    /\ UNCHANGED <<pc, src_n, env, server>>

-----------------------------------------------------------------------------
(* load_sqlite_to_parquet *)

\* os.path.join(dir_local, f"{tbl}.parquet")
parquet_path(dir_local, tbl) == Path(dir_local, tbl, "parquet")

\* the directory dir_local as a path
DirPath(dir_local) == Path("", dir_local, "")

\* copy (select * from tbl) to path
Parquet(tbl) == [kind |-> "parquet", cols |-> tbl.cols, rows |-> tbl.rows]

\* the table_filter queries: none, one that selects table small, and one
\* that pandas cannot evaluate
FilterRaises(table_filter) == table_filter \notin {"", "table_name == 'small'"}
FilterSelects(table_filter, tbl) == table_filter = "" \/ tbl = "small"

\* every selected table is written
ShouldWrite_always(debug, overwrite, exists) == TRUE

\* not debug and ((overwrite and exists) or (not exists))
ShouldWrite(debug, overwrite, exists) ==
    ~debug /\ ((overwrite /\ exists) \/ ~exists)

load_sqlite_to_parquet(file_sqlite, dir_local, table_filter, overwrite, debug) ==
    /\ pc = "idle"
    /\ frame' = [fn |-> "load_sqlite_to_parquet", file_sqlite |-> file_sqlite,
                 dir_local |-> dir_local, table_filter |-> table_filter,
                 overwrite |-> overwrite, debug |-> debug]
    /\ LET made == IF DirPath(dir_local) \in DOMAIN fs THEN fs
                   ELSE (DirPath(dir_local) :> Dir) @@ fs
           c0 == <<Ev("os.path.exists", DirPath(dir_local))>>
                   \o (IF DirPath(dir_local) \in DOMAIN fs THEN <<>>
                       ELSE <<Ev("os.makedirs", DirPath(dir_local))>>)
                   \o <<Ev("duckdb.connect", file_sqlite)>>
           con == FileHandle("duckdb", file_sqlite, "load_sqlite_to_parquet")
       IN IF file_sqlite \notin DOMAIN fs \/ fs[file_sqlite].kind \notin {"sqlite", "duckdb"}
          THEN \* ddb.connect(read_only=True) raises
               /\ ret' = RetRaise("load_sqlite_to_parquet", "IOException")
               /\ log' = c0
               /\ fs' = made
               /\ UNCHANGED conns
          ELSE IF FilterRaises(table_filter)
          THEN \* df_db.query raises; con stays open
               /\ ret' = RetRaise("load_sqlite_to_parquet", "UndefinedVariableError")
               /\ log' = Append(c0, Ev("query", table_filter))
               /\ fs' = made
               /\ conns' = conns \cup {con}
          ELSE LET tbls == {t \in DOMAIN fs[file_sqlite].tables :
                                FilterSelects(table_filter, t)}
                   todo == {t \in tbls :
                              ShouldWrite(debug, overwrite,
                                          parquet_path(dir_local, t) \in DOMAIN fs)}
                   files == [p \in {parquet_path(dir_local, t) : t \in todo} |->
                               Parquet(fs[file_sqlite].tables[p[2]])]
               IN \E order \in Perms(todo) :
                    /\ ret' = RetNone("load_sqlite_to_parquet")
                    /\ log' = c0 \o [i \in DOMAIN order |->
                                        Ev("copy", parquet_path(dir_local, order[i]))]
                                 \o <<Ev("close", file_sqlite)>>
                    /\ fs' = files @@ made
                    /\ UNCHANGED conns
    /\ UNCHANGED <<pc, world>>

-----------------------------------------------------------------------------
(* find_key *)

\* if len(key_id) < 8
MinKeyIdLen == 8

\* sub in item, for strings given character by character
Contains(item, sub) ==
    \E i \in 0..(Len(item) - Len(sub)) : SubSeq(item, i + 1, i + Len(sub)) = sub

\* the keyring file of gpg
Keyring == Path(".gnupg", "pubring", "kbx")

\* gpg.list_keys(check_private): the keys, in the order of the keyring
list_keys(check_private) ==
    LET keys == fs[Keyring].keys
        RECURSIVE Secret(_)
        Secret(k) == IF k = 0 THEN <<>>
                     ELSE Secret(k - 1) \o (IF keys[k].secret THEN <<keys[k]>> ELSE <<>>)
    IN IF check_private THEN Secret(Len(keys)) ELSE keys

\* [item for item in items if key_id in item]
RECURSIVE Matches(_, _, _)
Matches(items, key_id, k) ==
    IF k = 0 THEN <<>>
    ELSE Matches(items, key_id, k - 1)
         \o (IF Contains(items[k], key_id) THEN <<items[k]>> ELSE <<>>)

find_key(key_id, check_private) ==
    /\ pc = "idle"
    /\ frame' = [fn |-> "find_key", key_id |-> key_id, check_private |-> check_private]
    /\ IF Len(key_id) < MinKeyIdLen
       THEN /\ ret' = RetNone("find_key")
            /\ log' = <<Ev("print", "key_id must be at least 6 characters long")>>
       ELSE LET keys == list_keys(check_private)
                key_ids == [k \in DOMAIN keys |-> keys[k].keyid]
                key_prints == [k \in DOMAIN keys |-> keys[k].fingerprint]
                key_ids_match == Matches(key_ids, key_id, Len(key_ids))
                key_prints_match == Matches(key_prints, key_id, Len(key_prints))
            IN /\ log' = <<Ev("list_keys", Keyring),
                           Ev("print", IF key_ids_match # <<>> \/ key_prints_match # <<>>
                                       THEN "key found" ELSE "key not found")>>
               /\ ret' = IF key_ids_match # <<>>
                         THEN RetValue("find_key", PyList(key_ids_match))
                         ELSE IF key_prints_match # <<>>
                         THEN RetValue("find_key", PyList(key_prints_match))
                         ELSE RetNone("find_key")
    /\ UNCHANGED <<fs, conns, pc, world>>

-----------------------------------------------------------------------------
(* encrypt, decrypt *)

\* file names of messages, character by character
GpgSuffix == <<".", "g", "p", "g">>

\* message_file_path[:-4]
DropLast4(name) == IF Len(name) > 4 THEN SubSeq(name, 1, Len(name) - 4) ELSE <<>>

File(data) == [kind |-> "file", data |-> data]

\* an encrypted message: what was encrypted and for which key ids
Cipher(data, recipients) == [pgp |-> data, recipients |-> recipients]

\* the text of a message as gpg reads it: a str argument or the content of a file
IsCipher(data) == "pgp" \in DOMAIN data

\* if not isinstance(recipient_key_id_list, list): [recipient_key_id_list]
AsList(recipient_key_id_list) ==
    IF "list" \in DOMAIN recipient_key_id_list
    THEN recipient_key_id_list.list
    ELSE <<recipient_key_id_list.str>>

\* only None counts as no path
NoPath_none(message_file_path) == message_file_path = None

\* not message, not message_file_path: None or empty
NoMessage(message) == message = None \/ message = Some(PyStr(""))
NoPath(message_file_path) == message_file_path = None \/ message_file_path = Some(<<>>)

\* gpg encrypts for recipients that are all in the keyring (always_trust)
CanEncrypt(recipients) ==
    /\ recipients # <<>>
    /\ \A r \in DOMAIN recipients :
          \E k \in DOMAIN fs[Keyring].keys : fs[Keyring].keys[k].keyid = recipients[r]

\* gpg decrypts a message for which the keyring holds a secret key
CanDecrypt(data) ==
    /\ IsCipher(data)
    /\ \E r \in DOMAIN data.recipients, k \in DOMAIN fs[Keyring].keys :
          /\ fs[Keyring].keys[k].keyid = data.recipients[r]
          /\ fs[Keyring].keys[k].secret

\* the library's result object
Result(ok, data) == [ok |-> ok, data |-> data]
NoData == PyStr("")

encrypt(recipient_key_id_list, message, message_file_path) ==
    /\ pc = "idle"
    /\ frame' = [fn |-> "encrypt", message |-> message,
                 message_file_path |-> message_file_path]
    /\ LET recipients == AsList(recipient_key_id_list)
       IN IF NoMessage(message) /\ NoPath(message_file_path)
          THEN /\ ret' = RetNone("encrypt")
               /\ log' = <<Ev("print", "no message or message file to encrypt")>>
               /\ UNCHANGED fs
          ELSE IF ~NoPath(message_file_path)
          THEN LET path == message_file_path[1]
                   output == path \o GpgSuffix
               IN /\ log' = <<Ev("gpg.encrypt_file", path)>>
                  /\ IF path \notin DOMAIN fs
                     THEN \* the library cannot open the file
                          /\ ret' = RetRaise("encrypt", "ValueError")
                          /\ UNCHANGED fs
                     ELSE IF CanEncrypt(recipients)
                     THEN /\ ret' = RetValue("encrypt", Result(TRUE, NoData))
                          /\ fs' = (output :> File(Cipher(fs[path].data, recipients))) @@ fs
                     ELSE /\ ret' = RetValue("encrypt", Result(FALSE, NoData))
                          /\ UNCHANGED fs
          ELSE /\ log' = <<Ev("gpg.encrypt", "data")>>
               /\ ret' = RetValue("encrypt",
                                  IF CanEncrypt(recipients)
                                  THEN Result(TRUE, Cipher(message[1], recipients))
                                  ELSE Result(FALSE, NoData))
               /\ UNCHANGED fs
    /\ UNCHANGED <<conns, pc, world>>

decrypt(message, message_file_path, passphrase) ==
    /\ pc = "idle"
    /\ frame' = [fn |-> "decrypt", message |-> message,
                 message_file_path |-> message_file_path]
    /\ IF NoMessage(message) /\ NoPath(message_file_path)
       THEN /\ ret' = RetNone("decrypt")
            /\ log' = <<Ev("print", "no message or message file to decrypt")>>
            /\ UNCHANGED fs
       ELSE IF ~NoPath(message_file_path)
       THEN LET path == message_file_path[1]
                output == DropLast4(path)
            IN /\ log' = <<Ev("gpg.decrypt_file", path)>>
               /\ IF path \notin DOMAIN fs
                  THEN \* the library cannot open the file
                       /\ ret' = RetRaise("decrypt", "ValueError")
                       /\ UNCHANGED fs
                  ELSE IF CanDecrypt(fs[path].data)
                  THEN IF output = <<>>
                       THEN \* no output file: the text is in the result
                            /\ ret' = RetValue("decrypt", Result(TRUE, fs[path].data.pgp))
                            /\ UNCHANGED fs
                       ELSE /\ ret' = RetValue("decrypt", Result(TRUE, NoData))
                            /\ fs' = (output :> File(fs[path].data.pgp)) @@ fs
                  ELSE /\ ret' = RetValue("decrypt", Result(FALSE, NoData))
                       /\ UNCHANGED fs
       ELSE /\ log' = <<Ev("gpg.decrypt", "data")>>
            /\ ret' = RetValue("decrypt",
                               IF CanDecrypt(message[1])
                               THEN Result(TRUE, message[1].pgp)
                               ELSE Result(FALSE, NoData))
            /\ UNCHANGED fs
    /\ UNCHANGED <<conns, pc, world>>

-----------------------------------------------------------------------------
(* Inputs and specifications *)

DictMetas == {None, Some(<<<<"tag", PyStr("v1")>>, <<"rows", PyInt(7)>>>>)}
DictViews == {None, Some(<<<<"v_t", "select a from t">>>>)}
TopNRows == {0, TopRows}

ConOk == Connection("srv", "db1")

ListTables ==
    { <<>>,
      <<StrItem(T1("t"))>>,
      <<StrItem(T2("dbo", "t")), StrItem(T2("hist", "t"))>>,
      <<StrItem(T1("u")), StrItem(T1("nope"))>>,
      <<StrItem(T3("db1", "dbo", "t"))>>,
      <<ListItem(T2("[dbo]", "[t]"), "x")>>,
      <<ListItem(T2("hist", "t"), "")>>,
      <<ListItem(T1("u"), "x"), ListItem(T1("t"), "x")>>,
      <<ListItem(T1("u"), "v_t")>>,
      <<StrItem(T1("u")), ListItem(T1("t"), "x")>> }

SmallListTables ==
    { <<>>,
      <<StrItem(T1("u"))>>,
      <<StrItem(T2("hist", "t")), StrItem(T1("nope"))>>,
      <<ListItem(T1("u"), "x")>> }

InitFs == {<<>>, FileDb :> OldFile}

InitWorld(sizes) ==
    /\ fs \in InitFs
    /\ conns = {}
    /\ pc = "idle"
    /\ frame = NoFrame
    /\ ret = NoRet
    /\ log = <<>>
    /\ src_n \in sizes
    /\ env = Env
    /\ server = Server(TRUE)
    /\ ncalls = 0

SqliteNext(cons, lists, metas, views) ==
    \/ \E cs \in cons, lt \in lists, dm \in metas, dv \in views, n \in TopNRows :
          load_sql_to_sqlite(cs, FileDb, lt, dm, dv, n)
    \/ load_sql_to_sqlite_for
    \/ load_sql_to_sqlite_while

DuckNext(cons, lists, metas, outcomes) ==
    \/ \E cs \in cons, lt \in lists,
          dm \in metas, del \in BOOLEAN, n \in TopNRows :
          load_mssql_to_duckdb(cs, FileDb, lt, dm, del, n)
    \/ load_mssql_to_duckdb_for
    \/ \E o \in outcomes : load_mssql_to_duckdb_bcp(o)

\* con_source as the callers of the two loaders pass it
SqliteCons == {ConOk, NoneCon}
DuckCons == {ConOk, NoneCon, BadUrlCon, Connection("", "db1")}

Hosts == {"", "srv", "SQL_HOST"}
Dbs == {"", "db1", "db2", "SQL_DB"}
Dbms == {"mssql", "sqlite", "postgres", "oracle"}

InitConnect ==
    /\ fs = <<>>
    /\ conns = {}
    /\ pc = "idle"
    /\ frame = NoFrame
    /\ ret = NoRet
    /\ log = <<>>
    /\ src_n = SmallRows
    /\ env = Env
    /\ server \in {Server(TRUE), Server(FALSE)}
    /\ ncalls = 0

\* connect_sql with every kind of argument, on a server that answers or not
NextConnect ==
    \E db \in Dbs, host \in Hosts, use_env \in BOOLEAN, dbms \in Dbms,
       ensure \in BOOLEAN, lib \in BOOLEAN :
       connect_sql(db, host, IF use_env THEN "SQL_USER" ELSE "", "", use_env, dbms,
                   ensure, lib)
SpecConnect == InitConnect /\ [][NextConnect]_vars

\* a connection the caller opened before and passes in as con
CallerCon == Handle("sqlalchemy", Url("mssql", Some(""), Some(""), Some("srv"), Some("db1")),
                    "caller")

Df2 == DataFrame(<<"a", "b">>, << <<PyInt(10), PyStr("x")>>, <<PyInt(20), PyStr("y")>> >>)
DfId == DataFrame(<<"id", "created_at">>, << <<PyInt(7), PyStr("then")>> >>)

Answers == {"y", "Y", "n", "", "yes"}

\* host and db as given: names, empty strings, or names of environment
\* variables (set, set to "", or not set)
HostDbs == {<<"srv", "db1">>, <<"", "db1">>, <<"srv", "">>, <<"SQL_HOST", "SQL_DB">>,
            <<"SQL_HOST", "SQL_EMPTY">>, <<"SQL_HOST", "db2">>}

\* the caller holds a connection when the server answers
InitMssql ==
    /\ server \in {Server(TRUE), Server(FALSE)}
    /\ conns = IF server.up THEN {CallerCon} ELSE {}
    /\ fs = <<>>
    /\ pc = "idle"
    /\ frame = NoFrame
    /\ ret = NoRet
    /\ log = <<>>
    /\ src_n = SmallRows
    /\ env = Env
    /\ ncalls = 0

\* the three functions that check host and db, and the two that use a
\* connection of their own
NextMssql ==
    \/ \E hd \in HostDbs, use_env \in BOOLEAN :
          connect_sql(hd[2], hd[1], "", "", use_env, "mssql", FALSE, FALSE)
    \/ \E q \in {T1("u"), T1("nope")}, hd \in HostDbs, use_env \in BOOLEAN :
          load_from_mssql(q, hd[1], hd[2], use_env)
    \/ \E con \in {None} \cup {Some(c) : c \in conns}, hd \in HostDbs, use_env \in BOOLEAN :
          \/ save_to_mssql(Df2, con, hd[1], hd[2], "Table", "dbo", use_env, FALSE, FALSE,
                           FALSE, "")
          \/ \E user_input \in Answers :
                save_to_mssql(Df2, con, hd[1], hd[2], "Table", "dbo", use_env, FALSE,
                              FALSE, TRUE, user_input)
SpecMssql == InitMssql /\ [][NextMssql]_vars

\* a SQLite file with one table above the debug limit and one below it
OverLimit == 1
DataSqlite == Path("", "data", "sqlite")
DataRows(n) == [i \in 1..n |-> 3000000 + i]
DataDb ==
    [EmptyDb("sqlite") EXCEPT !.tables =
        ("big" :> Table(<<"a">>, DataRows(DebugLimit + OverLimit)))
        @@ ("small" :> Table(<<"a", "b">>, DataRows(SmallRows)))]

\* data.duckdb: not there, left by an earlier export of table small, or a
\* file that is no DuckDB database
DataDuckdbs ==
    {<<>>,
     with_suffix(DataSqlite, "duckdb") :>
        [EmptyDb("duckdb") EXCEPT !.tables = "small" :> Table(<<"a", "b">>, <<>>)],
     with_suffix(DataSqlite, "duckdb") :> OldFile}

PassListTables == {<<StrItem(T1("t"))>>, <<StrItem(T2("hist", "t")), ListItem(T1("u"), "x")>>}

InitPass ==
    /\ \E d \in DataDuckdbs :
          fs = (DataSqlite :> DataDb) @@ (Path("", "notes", "txt") :> OldFile) @@ d
    /\ conns = {CallerCon}
    /\ pc = "idle"
    /\ frame = NoFrame
    /\ ret = NoRet
    /\ log = <<>>
    /\ src_n = SmallRows
    /\ env = Env
    /\ server = Server(TRUE)
    /\ ncalls = 0

\* the four functions that move tables from a source to a sink
NextPass ==
    \/ \E df \in {Df2, DfId}, add_id \in BOOLEAN, add_timestamp \in BOOLEAN :
          save_to_mssql(df, Some(CallerCon), "", "", "Table", "dbo", TRUE, add_id,
                        add_timestamp, FALSE, "")
    \/ SqliteNext({ConOk}, PassListTables, {None}, {None})
    \/ DuckNext({ConOk}, PassListTables, {None}, {"ok", "copy_error"})
    \/ \E sqlite_path \in {DataSqlite, FileDb, Path("", "notes", "txt"),
                           Path("", "nope", "sqlite")}, debug \in BOOLEAN :
          load_sqlite_to_duckdb(sqlite_path, debug)
SpecPass == InitPass /\ [][NextPass]_vars

\* Parquet files that were in the directory before: every choice of them
OldParquets ==
    {[p \in ps |-> OldFile] : ps \in SUBSET {parquet_path("pq", t) : t \in {"big", "small"}}}

InitParquet ==
    /\ \E old \in OldParquets, d \in {<<>>, DirPath("pq") :> Dir} :
          /\ old # <<>> => d # <<>>
          /\ fs = (DataSqlite :> DataDb) @@ (Path("", "notes", "txt") :> OldFile) @@ old @@ d
    /\ conns = {}
    /\ pc = "idle"
    /\ frame = NoFrame
    /\ ret = NoRet
    /\ log = <<>>
    /\ src_n = SmallRows
    /\ env = Env
    /\ server = Server(TRUE)
    /\ ncalls = 0

NextParquet ==
    \E file_sqlite \in {DataSqlite, Path("", "notes", "txt"), Path("", "nope", "sqlite")},
       table_filter \in {"", "table_name == 'small'", "nonsense"},
       overwrite \in BOOLEAN, debug \in BOOLEAN :
       load_sqlite_to_parquet(file_sqlite, "pq", table_filter, overwrite, debug)
SpecParquet == InitParquet /\ [][NextParquet]_vars

\* key ids and fingerprints, character by character: the key id is the end
\* of the fingerprint
KeyId1 == <<"3", "A", "F", "0", "9", "C", "1", "2", "7", "B">>
KeyId2 == <<"5", "5", "D", "E", "0", "4", "4", "A", "9", "1">>
Key(keyid, secret) ==
    [keyid |-> keyid, fingerprint |-> <<"E", "E", "0", "1">> \o keyid, secret |-> secret]

Keyrings ==
    {<<>>, <<Key(KeyId1, FALSE)>>, <<Key(KeyId1, TRUE), Key(KeyId2, FALSE)>>}

\* what a caller may type: every piece of some lengths of a fingerprint in
\* the keyring, and a string that is in none
MaxKeyIdLen == 9
KeyIdInputs ==
    {SubSeq(Key(KeyId1, FALSE).fingerprint, x[1], x[2]) :
        x \in {y \in (1..14) \X (1..14) : y[2] - y[1] + 1 \in 5..MaxKeyIdLen}}
    \cup {<<"0", "0", "0", "0", "0", "0", "0", "0">>, <<"0", "0", "0", "0", "0", "0">>}

InitPgp ==
    /\ \E keys \in Keyrings : fs = Keyring :> [kind |-> "keyring", keys |-> keys]
    /\ conns = {}
    /\ pc = "idle"
    /\ frame = NoFrame
    /\ ret = NoRet
    /\ log = <<>>
    /\ src_n = SmallRows
    /\ env = Env
    /\ server = Server(TRUE)
    /\ ncalls = 0

NextPgp ==
    \E key_id \in KeyIdInputs, check_private \in BOOLEAN : find_key(key_id, check_private)
SpecPgp == InitPgp /\ [][NextPgp]_vars

\* message files: m holds a text, m.gpg is what encrypt made of it for key 1
FileM == <<"m">>
FileMGpg == FileM \o GpgSuffix
Hello == PyStr("hello")

Messages == {None, Some(PyStr("")), Some(Hello), Some(Cipher(Hello, <<KeyId1>>))}
MessagePaths == {None, Some(<<>>), Some(FileM), Some(FileMGpg), Some(<<"n", "o">>)}
Recipients == {PyStr(KeyId1), PyList(<<KeyId1, KeyId2>>), PyList(<<>>)}

InitCrypt ==
    /\ \E keys \in Keyrings, files \in {FileM :> File(Hello),
                                         (FileM :> File(Hello))
                                         @@ (FileMGpg :> File(Cipher(Hello, <<KeyId1>>)))} :
          fs = (Keyring :> [kind |-> "keyring", keys |-> keys]) @@ files
    /\ conns = {}
    /\ pc = "idle"
    /\ frame = NoFrame
    /\ ret = NoRet
    /\ log = <<>>
    /\ src_n = SmallRows
    /\ env = Env
    /\ server = Server(TRUE)
    /\ ncalls = 0

NextCrypt ==
    \/ \E r \in Recipients, message \in Messages, path \in MessagePaths :
          encrypt(r, message, path)
    \/ \E message \in Messages, path \in MessagePaths, passphrase \in {None, Some("pw")} :
          decrypt(message, path, passphrase)
SpecCrypt == InitCrypt /\ [][NextCrypt]_vars

-----------------------------------------------------------------------------
(* unpack_files_to_duckdb *)

\* the base names the model's files use, in the order sorted() puts them
NameOrder == <<"a", "b", "c", "z">>
sorted(S) == SelectSeq(NameOrder, LAMBDA n : n \in S)

\* os.listdir(dir): the files in the directory
listdir(dir) == {p \in DOMAIN fs : p[1] = dir}

\* os.path.basename(file).split(".")[0]
basename(p) == p[2]

\* a data file of the given format
DataFile(kind) == [kind |-> kind]

\* a DuckDB relation: what was read, by which call, on which connection
Relation(by, path, con) == [relation |-> path, by |-> by, con |-> con]

PyTuple(items) == [tuple |-> items]

\* an in-memory DuckDB connection opened by the named function
MemoryCon(by) == Handle("duckdb", [path |-> <<"", ":memory:", "">>], by)

\* the connection the caller passes in
DuckCon == MemoryCon("caller")

\* str(sorted(files)) without quotes and brackets: the names joined by ", "
RECURSIVE JoinNames(_, _, _)
JoinNames(prefix, names, k) ==
    IF k = 0 THEN <<>>
    ELSE JoinNames(prefix, names, k - 1)
         \o (IF k > 1 THEN <<", ">> ELSE <<>>) \o <<prefix, names[k]>>

\* the library calls of the loop for the files names[1..k]
RECURSIVE UnpackCalls(_, _, _, _, _, _)
UnpackCalls(dir, ext, names, k, prints, reads) ==
    IF k = 0 THEN <<>>
    ELSE UnpackCalls(dir, ext, names, k - 1, prints, reads)
         \o (IF prints THEN <<Ev("print", names[k])>> ELSE <<>>)
         \o (IF reads THEN <<Ev("read_" \o ext, Path(dir, names[k], ext))>> ELSE <<>>)

\* out = items[0] if len(items) == 1 else (*items,)
UnpackOut(items) == IF Len(items) = 1 THEN items[1] ELSE PyTuple(items)

unpack_files_to_duckdb(dir, ext, con, list_files, prefix, verbose, debug) ==
    /\ pc = "idle"
    /\ frame' = [fn |-> "unpack_files_to_duckdb", dir |-> dir, ext |-> ext, con |-> con,
                 list_files |-> list_files, prefix |-> prefix, debug |-> debug]
    /\ LET own == MemoryCon("unpack_files_to_duckdb")
           con_ == IF con = None THEN own ELSE con[1]
           opened == IF con = None THEN {own} ELSE {}
           c0 == (IF con = None THEN <<Ev("duckdb.connect", ":memory:")>> ELSE <<>>)
                   \o <<Ev("os.listdir", DirPath(dir))>>
       IN IF DirPath(dir) \notin DOMAIN fs
          THEN /\ ret' = RetRaise("unpack_files_to_duckdb", "FileNotFoundError")
               /\ log' = c0
               /\ conns' = conns \cup opened
          ELSE LET all == {basename(p) : p \in listdir(dir)}
                   files == IF list_files = None THEN all
                            ELSE all \cap SeqToSet(list_files[1])
                   names == sorted(files)
                   reads == ~debug /\ ext \in {"parquet", "csv"}
                   missing == {i \in DOMAIN names : Path(dir, names[i], ext) \notin DOMAIN fs}
                   prints == verbose \/ debug
               IN IF reads /\ missing # {}
                  THEN \* the read of the first name without such a file raises
                       LET k == CHOOSE i \in missing : \A j \in missing : i <= j
                       IN /\ ret' = RetRaise("unpack_files_to_duckdb", "IOException")
                          /\ log' = c0 \o UnpackCalls(dir, ext, names, k, prints, reads)
                          /\ conns' = conns \cup opened
                  ELSE /\ log' = c0 \o UnpackCalls(dir, ext, names, Len(names), prints, reads)
                                   \o (IF con = None THEN <<Ev("close", ":memory:")>> ELSE <<>>)
                       /\ ret' = RetValue("unpack_files_to_duckdb",
                             IF ~debug
                             THEN UnpackOut(IF reads
                                            THEN [i \in DOMAIN names |->
                                                    Relation("read_" \o ext,
                                                             Path(dir, names[i], ext), con_)]
                                            ELSE <<>>)
                             ELSE PyStr(JoinNames(prefix, names, Len(names))))
                       /\ UNCHANGED conns
    /\ UNCHANGED <<fs, pc, world>>

-----------------------------------------------------------------------------
(* is_url, load_file_to_duckdb *)

\* a path string: the scheme and network location urlparse finds in it (a
\* drive letter is a scheme without a network location), and its directory,
\* stem and suffix
PathStr(scheme, netloc, file) == [scheme |-> scheme, netloc |-> netloc, file |-> file]
LocalPath(file) == PathStr("", "", file)
EmptyPath == LocalPath(Path("", "", ""))

urlparse(url) == [scheme |-> url.scheme, netloc |-> url.netloc]

\* any([parsed.scheme, parsed.netloc])
is_url_any(url) == urlparse(url).scheme # "" \/ urlparse(url).netloc # ""

\* all([parsed.scheme, parsed.netloc])
is_url(url) == urlparse(url).scheme # "" /\ urlparse(url).netloc # ""

\* the user's home directory, and how a path names it
Home == "home"
Tilde == "~"

\* "~" in path
HasTilde(file) == file[1] = Tilde

\* os.path.expanduser(path)
expanduser(file) == IF file[1] = Tilde THEN Path(Home, file[2], file[3]) ELSE file

\* the pandas reader chosen by path.endswith(...), "" when none is
Reader(file) ==
    CASE file[3] \in {"csv", "txt"} -> "read_csv"
      [] file[3] = "parquet" -> "read_parquet"
      [] file[3] = "xlsx" -> "read_excel"
      [] OTHER -> ""

load_file_to_duckdb(con, path, lib_ok) ==
    /\ pc = "idle"
    /\ frame' = [fn |-> "load_file_to_duckdb", con |-> con, path |-> path]
    /\ IF path = None \/ path = Some(EmptyPath)
       THEN /\ ret' = RetRaise("load_file_to_duckdb", "FileNotFoundError")
            /\ log' = <<>>
       ELSE LET p == path[1]
                local == ~is_url(p)
                c0 == IF local THEN <<Ev("Path.exists", p.file)>> ELSE <<>>
            IN IF local /\ p.file \notin DOMAIN fs
               THEN /\ ret' = RetRaise("load_file_to_duckdb", "FileNotFoundError")
                    /\ log' = c0
               ELSE IF local /\ HasTilde(p.file)
               THEN \* path is a Path again, which has no endswith
                    /\ ret' = RetRaise("load_file_to_duckdb", "AttributeError")
                    /\ log' = Append(c0, Ev("expanduser", p.file))
               ELSE IF Reader(p.file) = ""
               THEN \* df was never assigned
                    /\ ret' = RetRaise("load_file_to_duckdb", "UnboundLocalError")
                    /\ log' = c0
               ELSE IF ~lib_ok \/ (local /\ fs[p.file] = Dir)
               THEN \* pandas cannot fetch or parse the resource
                    /\ ret' = RetRaise("load_file_to_duckdb", "ReadError")
                    /\ log' = Append(c0, Ev(Reader(p.file), p))
               ELSE /\ ret' = RetValue("load_file_to_duckdb",
                                       Relation(Reader(p.file), p, con))
                    /\ log' = c0 \o <<Ev(Reader(p.file), p), Ev("from_df", p)>>
    /\ UNCHANGED <<fs, conns, pc, world>>

\* files of the directory d, of the user's home directory, and of a
\* directory that is itself named ~
DirFiles == {Path("d", "a", "csv"), Path("d", "b", "csv"), Path("d", "a", "parquet"),
             Path("d", "c", "txt")}
HomeFile == Path(Home, "h", "csv")
TildeFile == Path(Tilde, "h", "csv")

UnpackLists == {None, Some(<<>>), Some(<<"b", "a">>), Some(<<"a", "z">>)}

LoadPaths ==
    {None, Some(EmptyPath), Some(LocalPath(TildeFile)), Some(LocalPath(HomeFile)),
     Some(LocalPath(Path("d", "a", "parquet"))), Some(LocalPath(Path("d", "c", "txt"))),
     Some(LocalPath(Path("d", "b", "csv"))), Some(LocalPath(DirPath("d"))),
     Some(LocalPath(Path("e", "x", "xlsx"))), Some(LocalPath(Path("e", "n", "json"))),
     Some(PathStr("https", "host", Path("", "u", "csv"))),
     Some(PathStr("https", "host", Path("", "u", "html"))),
     Some(PathStr("c", "", Path("d", "a", "csv")))}

InitFiles ==
    /\ \E present \in SUBSET DirFiles,
          home \in {<<>>, HomeFile :> DataFile("csv"),
                    (HomeFile :> DataFile("csv")) @@ (TildeFile :> DataFile("csv"))} :
          fs = [p \in present |-> DataFile(p[3])] @@ home @@ (DirPath("d") :> Dir)
                 @@ (Path("e", "x", "xlsx") :> DataFile("xlsx"))
                 @@ (Path("e", "n", "json") :> DataFile("json"))
    /\ conns = {DuckCon}
    /\ pc = "idle"
    /\ frame = NoFrame
    /\ ret = NoRet
    /\ log = <<>>
    /\ src_n = SmallRows
    /\ env = Env
    /\ server = Server(TRUE)
    /\ ncalls = 0

NextFiles ==
    \/ \E ext \in {"csv", "parquet", "txt"}, con \in {None, Some(DuckCon)},
          list_files \in UnpackLists, prefix \in {"", "p_"}, debug \in BOOLEAN :
          unpack_files_to_duckdb("d", ext, con, list_files, prefix, prefix # "", debug)
    \/ unpack_files_to_duckdb("nodir", "csv", None, None, "", FALSE, FALSE)
    \/ \E path \in LoadPaths, lib_ok \in BOOLEAN :
          load_file_to_duckdb(DuckCon, path, lib_ok)
SpecFiles == InitFiles /\ [][NextFiles]_vars

-----------------------------------------------------------------------------
(* get_infisical_secrets, get_bitwarden_secrets *)

\* a .env file and the variables it sets
DotEnvFile(variables) == [kind |-> "env", vars |-> variables]

\* find_dotenv(): the .env file of the working directory
DotEnv == Path("", ".env", "")

\* the file load_dotenv(dotenv_path) reads: the given one, or the one
\* find_dotenv() finds when the path is empty
dotenv_path(env_path) == IF env_path = <<>> THEN DotEnv ELSE env_path

\* load_dotenv returns True if the file was found and set at least one variable
load_dotenv(env_path) ==
    /\ dotenv_path(env_path) \in DOMAIN fs
    /\ DOMAIN fs[dotenv_path(env_path)].vars # {}

\* the environment after load_dotenv: variables already set are kept
Loaded(env_path) ==
    IF load_dotenv(env_path) THEN env @@ fs[dotenv_path(env_path)].vars ELSE env

\* os.getenv(name)
os_getenv(e, name) == IF name \in DOMAIN e THEN Some(e[name]) ELSE None

InfisicalVars == <<"INF_CLIENT", "INF_SECRET", "INF_PROJECT">>

get_infisical_secrets(secrets, env_path, service_ok) ==
    /\ pc = "idle"
    /\ frame' = [fn |-> "get_infisical_secrets", secrets |-> secrets, env_path |-> env_path]
    /\ env' = Loaded(env_path)
    /\ IF ~load_dotenv(env_path)
       THEN /\ ret' = RetNone("get_infisical_secrets")
            /\ log' = <<Ev("load_dotenv", dotenv_path(env_path)), Ev("print", "missing .env file")>>
       ELSE LET c0 == <<Ev("load_dotenv", dotenv_path(env_path))>>
                missing == {i \in DOMAIN InfisicalVars : InfisicalVars[i] \notin DOMAIN env'}
            IN IF missing # {}
               THEN \* os.environ[...] raises
                    /\ ret' = RetRaise("get_infisical_secrets", "KeyError")
                    /\ log' = c0
               ELSE IF \E i \in DOMAIN InfisicalVars : env'[InfisicalVars[i]] = ""
               THEN /\ ret' = RetNone("get_infisical_secrets")
                    /\ log' = Append(c0, Ev("print", "missing items in .env file"))
               ELSE IF ~service_ok /\ secrets # <<>>
               THEN \* the service cannot be reached or does not hold the secret
                    /\ ret' = RetRaise("get_infisical_secrets", "ServiceError")
                    /\ log' = c0 \o <<Ev("InfisicalClient", env'["INF_CLIENT"]),
                                      Ev("getSecret", secrets[1])>>
               ELSE /\ ret' = RetValue("get_infisical_secrets",
                                       [i \in DOMAIN secrets |-> <<"value", secrets[i]>>])
                    /\ log' = c0 \o <<Ev("InfisicalClient", env'["INF_CLIENT"])>>
                                 \o [i \in DOMAIN secrets |-> Ev("getSecret", secrets[i])]
    /\ UNCHANGED <<fs, conns, pc, src_n, server, ncalls>>

get_bitwarden_secrets(list_key_ids, service_ok) ==
    /\ pc = "idle"
    /\ frame' = [fn |-> "get_bitwarden_secrets", list_key_ids |-> list_key_ids]
    /\ env' = Loaded(<<>>)
    /\ LET c0 == <<Ev("load_dotenv", DotEnv)>>
       IN IF ~load_dotenv(<<>>)
          THEN /\ ret' = RetNone("get_bitwarden_secrets")
               /\ log' = Append(c0, Ev("print", "missing .env file"))
          ELSE IF os_getenv(env', "BWS_ACCESS_TOKEN") \in {None, Some("")}
          THEN /\ ret' = RetNone("get_bitwarden_secrets")
               /\ log' = Append(c0, Ev("print", "missing BWS_ACCESS_TOKEN"))
          ELSE IF list_key_ids = None
          THEN /\ ret' = RetNone("get_bitwarden_secrets")
               /\ log' = Append(c0, Ev("print", "missing list_key_ids"))
          ELSE IF ~service_ok
          THEN /\ ret' = RetRaise("get_bitwarden_secrets", "ServiceError")
               /\ log' = c0 \o <<Ev("load_dotenv", DotEnv),
                                 Ev("BitwardenClient", "https://api.bitwarden.com"),
                                 Ev("login_access_token", env'["BWS_ACCESS_TOKEN"])>>
          ELSE /\ ret' = RetValue("get_bitwarden_secrets",
                                  [i \in DOMAIN list_key_ids[1] |->
                                      <<"value", list_key_ids[1][i]>>])
               /\ log' = c0 \o <<Ev("load_dotenv", DotEnv),
                                 Ev("BitwardenClient", "https://api.bitwarden.com"),
                                 Ev("login_access_token", env'["BWS_ACCESS_TOKEN"]),
                                 Ev("get_by_ids", list_key_ids[1])>>
    /\ UNCHANGED <<fs, conns, pc, src_n, server, ncalls>>

\* .env files: complete, with an empty value, with a variable left out,
\* without any variable
DotEnvs ==
    { [INF_CLIENT |-> "c", INF_SECRET |-> "s", INF_PROJECT |-> "p", BWS_ACCESS_TOKEN |-> "tok"],
      [INF_CLIENT |-> "", INF_SECRET |-> "s", INF_PROJECT |-> "p", BWS_ACCESS_TOKEN |-> ""],
      [INF_CLIENT |-> "c", INF_SECRET |-> "s"],
      [OTHER_VAR |-> "x"],
      <<>> }

ConfEnv == Path("conf", ".env", "")

InitSec ==
    /\ \E here \in {<<>>} \cup {DotEnv :> DotEnvFile(v) : v \in DotEnvs},
          conf \in {<<>>, ConfEnv :> DotEnvFile([INF_CLIENT |-> "c2", INF_SECRET |-> "s2",
                                                 INF_PROJECT |-> "p2"])} :
          fs = here @@ conf
    /\ env \in {Env, [INF_PROJECT |-> "p0"] @@ Env}
    /\ conns = {}
    /\ pc = "idle"
    /\ frame = NoFrame
    /\ ret = NoRet
    /\ log = <<>>
    /\ src_n = SmallRows
    /\ server = Server(TRUE)
    /\ ncalls = 0

NextSec ==
    \/ \E secrets \in {<<>>, <<"k1", "k2">>}, env_path \in {<<>>, ConfEnv, Path("no", ".env", "")},
          service_ok \in BOOLEAN :
          get_infisical_secrets(secrets, env_path, service_ok)
    \/ \E list_key_ids \in {None, Some(<<>>), Some(<<"id1">>)}, service_ok \in BOOLEAN :
          get_bitwarden_secrets(list_key_ids, service_ok)
SpecSec == InitSec /\ [][NextSec]_vars

\* both loaders with every kind of dict_meta: none, strings and numbers, an
\* empty dict, a list as value
MetaDicts == DictMetas \cup {Some(<<>>), Some(<< <<"tables", PyList(<<"t", "u">>)>> >>)}
MetaLists == {<<>>, <<StrItem(T1("u"))>>}
InitMeta == InitWorld({SmallRows})
NextMeta ==
    \/ SqliteNext({ConOk}, MetaLists, MetaDicts, {None})
    \/ DuckNext({ConOk, NoneCon}, MetaLists, MetaDicts, {"ok", "copy_error"})
SpecMeta == InitMeta /\ [][NextMeta]_vars

\* both loaders, on one file_db
Init == InitWorld({0, SmallRows})
Next ==
    \/ SqliteNext(SqliteCons, SmallListTables, DictMetas, DictViews)
    \/ DuckNext(DuckCons, SmallListTables, DictMetas, BcpOutcomes)
Spec == Init /\ [][Next]_vars

\* load_sql_to_sqlite on sources of every size around the batch size
InitSqlite == InitWorld(Sizes)
NextSqlite == SqliteNext(SqliteCons, ListTables, DictMetas, DictViews)
SpecSqlite == InitSqlite /\ [][NextSqlite]_vars

\* the same, with the thread inside the fetch loop always taking its next step
SpecSqliteFair == SpecSqlite /\ WF_vars(load_sql_to_sqlite_while)

\* load_mssql_to_duckdb with every outcome of bcp and COPY
InitDuck == InitWorld({0, SmallRows})
NextDuck == DuckNext(DuckCons, ListTables, DictMetas, BcpOutcomes)
SpecDuck == InitDuck /\ [][NextDuck]_vars

-----------------------------------------------------------------------------
(* Properties *)

Loaders == {"load_sql_to_sqlite", "load_mssql_to_duckdb"}

\* the log of a loader call starts with its existence check
LoaderLog(l) == l # <<>> /\ l[1].op = "os.path.exists"

\* C2: a loader called while file_db exists returns None; it leaves the file
\* system (file_db, .local, CSV files) and the open connections as they were
\* and calls nothing but os.path.exists: no connect, no query on con_source,
\* no makedirs, no bcp.
C2_ExistingFileReturnsUntouched ==
    [][(pc = "idle" /\ FileDb \in DOMAIN fs /\ LoaderLog(log'))
         => /\ fs' = fs
            /\ conns' = conns
            /\ pc' = "idle"
            /\ ret' \in {RetNone(fn) : fn \in Loaders}
            /\ log' = <<Ev("os.path.exists", FileDb)>>]_vars

\* load_mssql_to_duckdb has returned at the existence check, on a file that an
\* earlier load_sql_to_sqlite call had created
C2_Witness ==
    /\ pc = "idle"
    /\ ret = RetNone("load_mssql_to_duckdb")
    /\ log = <<Ev("os.path.exists", FileDb)>>
    /\ FileDb \in DOMAIN fs
    /\ fs[FileDb].kind = "sqlite"

\* the fetch loops of all items are done; close and return are what is left
SqliteLoaded ==
    /\ pc = "sqlite_for"
    /\ frame.i > Len(frame.list_tables)

\* the source rows of item k of list_tables and its destination name
C3_ItemRows(lt, k) == SourceRows(Resolve(table_sql(lt[k], is_list_nested(lt))))
C3_ItemDest(lt, k) == table_friendly(lt[k], is_list_nested(lt))

\* the source rows of the first k items that go to destination name
RECURSIVE C3_RowsFor(_, _, _)
C3_RowsFor(lt, k, name) ==
    IF k = 0 THEN <<>>
    ELSE C3_RowsFor(lt, k - 1, name)
         \o (IF C3_ItemDest(lt, k) = name THEN C3_ItemRows(lt, k) ELSE <<>>)

C3_Alone(lt, k) == \A j \in DOMAIN lt : j # k => C3_ItemDest(lt, j) # C3_ItemDest(lt, k)

\* C3 as stated: with top_n_rows = 0, after the loops every item's destination
\* table holds exactly the rows of that item's source result, in order.
C3_EveryTableEqualsItsSource ==
    (SqliteLoaded /\ frame.top_n_rows = 0)
      => \A k \in DOMAIN frame.list_tables :
            fs[FileDb].tables[C3_ItemDest(frame.list_tables, k)].rows
              = C3_ItemRows(frame.list_tables, k)

\* C3 amended: with top_n_rows = 0, after the loops every destination table
\* holds, in order and each once, the source rows of all the items that map to
\* its name; no to_sql call wrote more than batchsize rows; so an item that
\* shares its destination name with no other item has a destination table
\* with exactly the rows (and row count) of its source, whatever the size.
C3_RowsAppendedOnceInOrder ==
    (SqliteLoaded /\ frame.top_n_rows = 0)
      => /\ \A k \in DOMAIN frame.list_tables :
               LET name == C3_ItemDest(frame.list_tables, k)
                   rows == fs[FileDb].tables[name].rows
               IN /\ rows = C3_RowsFor(frame.list_tables, Len(frame.list_tables), name)
                  /\ C3_Alone(frame.list_tables, k)
                       => /\ rows = C3_ItemRows(frame.list_tables, k)
                          /\ Len(rows) = SourceSize(Resolve(table_sql(frame.list_tables[k],
                                              is_list_nested(frame.list_tables))))
         /\ \A e \in DOMAIN log : log[e].op = "to_sql" => log[e].n <= batchsize

\* a source of exactly batchsize rows has been loaded into table t
C3_Witness ==
    /\ SqliteLoaded
    /\ frame.top_n_rows = 0
    /\ frame.list_tables = <<StrItem(T1("t"))>>
    /\ src_n = batchsize
    /\ Len(fs[FileDb].tables["t"].rows) = batchsize
    /\ LogCount(log, "to_sql") = 2

-----------------------------------------------------------------------------
(* connect_sql, load_from_mssql, save_to_mssql *)

\* the step is a call of fn, from entry to exit
Called(fn) == ncalls' = ncalls + 1 /\ frame'.fn = fn

\* the call reaches the check of host and db: save_to_mssql does so when con
\* is None and the user has not declined
C4_ReachesCheck ==
    \/ Called("connect_sql")
    \/ Called("load_from_mssql")
    \/ /\ Called("save_to_mssql")
       /\ frame'.con = None
       /\ ~(frame'.ask_user /\ frame'.user_input \notin {"y", "Y"})

EngineCalls == {"create_engine", "database_exists", "create_database", "engine.connect",
                "read_sql", "to_sql"}

C5_UnreachableReturnsNone ==
    (frame.fn = "connect_sql" /\ ~Falsy(frame.host) /\ ~Falsy(frame.db))
      => /\ ret.kind # "raise"
         /\ frame.dbms \notin {"mssql", "sqlite", "postgres"}
              => ret = RetNone("connect_sql") /\ ~LogHas(log, "create_engine")

\* C6 as stated: connect_sql for sqlite, with use_env False, a db and the
\* default host "", creates the engine for sqlite:///<db> and does not raise.
C6_SqliteNeedsNoHost ==
    (/\ frame.fn = "connect_sql"
     /\ frame.dbms = "sqlite"
     /\ ~frame.use_env
     /\ frame.host = Some("")
     /\ ~Falsy(frame.db))
      => /\ ret.kind # "raise"
         /\ log # <<>>
         /\ log[1] = Ev("create_engine", Url("sqlite", None, None, None, frame.db))

\* C7: with ask_user, save_to_mssql prompts first, and for an answer other
\* than y or Y it returns None having done nothing else: no environment
\* lookup, no connection, no write; so a connection is opened or the table
\* written only after the answer y or Y.  Without ask_user it never prompts.
C7_WritesOnlyAfterYes ==
    [][Called("save_to_mssql")
         => /\ frame'.ask_user
                => /\ log' # <<>>
                   /\ log'[1] = Ev("input", frame'.user_input)
                   /\ frame'.user_input \notin {"y", "Y"}
                        => /\ log' = <<Ev("input", frame'.user_input)>>
                           /\ ret' = RetNone("save_to_mssql")
                           /\ conns' = conns
                           /\ server' = server
                   /\ (conns' # conns \/ server' # server \/ LogHas(log', "to_sql"))
                        => frame'.user_input \in {"y", "Y"}
            /\ ~frame'.ask_user => ~LogHas(log', "input")]_vars

\* the user answered Y and the table was written over a connection the call
\* opened
C7_Witness ==
    /\ ret = RetNone("save_to_mssql")
    /\ frame.ask_user
    /\ frame.user_input = "Y"
    /\ frame.con = None
    /\ LogHas(log, "engine.connect")
    /\ LogHas(log, "to_sql")
    /\ <<"dbo", "Table">> \in DOMAIN server.tables

-----------------------------------------------------------------------------
(* connections *)

\* the functions that open a connection for their own use
Openers == {"load_sql_to_sqlite", "load_mssql_to_duckdb", "load_from_mssql",
            "load_sqlite_to_duckdb", "load_sqlite_to_parquet",
            "save_to_mssql"}

\* C1 as stated: when no call is running, no connection that one of these
\* functions opened for itself is still open, however the call ended.
C1_OwnConnectionsClosed ==
    pc = "idle" => \A h \in conns : h.by \notin Openers

-----------------------------------------------------------------------------
(* data passed from a source to a sink *)

\* the loops of all items are done; close and return are what is left
DuckLoaded ==
    /\ pc = "duck_for"
    /\ frame.i > Len(frame.list_tables)

\* the first n rows, all of them for n = 0
C8_Top(rows, n) == IF n > 0 THEN SubSeq(rows, 1, Min(n, Len(rows))) ELSE rows

C8_AllDirect(tbl) == \A i \in DOMAIN tbl.exprs : tbl.exprs[i] = "direct"

\* COPY has filled the table
C8_Copied(tbl) == \A i \in DOMAIN tbl.exprs : tbl.exprs[i] # "none"

\* save_to_mssql has written its table
C8_Saved ==
    /\ frame.fn = "save_to_mssql"
    /\ ret = RetNone("save_to_mssql")
    /\ LogHas(log, "to_sql")

\* load_sqlite_to_duckdb has returned
C8_Exported ==
    /\ frame.fn = "load_sqlite_to_duckdb"
    /\ ret = RetNone("load_sqlite_to_duckdb")

C8_ExportedTables == {log[e].on : e \in {x \in DOMAIN log : log[x].op = "CREATE TABLE AS"}}

\* C8 as stated: whatever the parameters, the table a function writes has the
\* columns, rows and values of its source: the DataFrame given to
\* save_to_mssql, the source table of each item of the two loaders, the
\* SQLite table of each table load_sqlite_to_duckdb exports.
C8_PassedThroughUnchanged ==
    /\ C8_Saved => server.tables[frame.table] = frame.df
    /\ SqliteLoaded =>
         \A k \in DOMAIN frame.list_tables :
            LET tbl == fs[FileDb].tables[C3_ItemDest(frame.list_tables, k)]
                src == Resolve(table_sql(frame.list_tables[k],
                                         is_list_nested(frame.list_tables)))
            IN C3_Alone(frame.list_tables, k)
                 => /\ tbl.cols = SourceCols(src)
                    /\ tbl.rows = SourceRows(src)
                    /\ C8_AllDirect(tbl)
    /\ DuckLoaded =>
         \A k \in DOMAIN frame.list_tables :
            LET dest == C3_ItemDest(frame.list_tables, k)
                src == Resolve(table_sql(frame.list_tables[k],
                                         is_list_nested(frame.list_tables)))
            IN (/\ C3_Alone(frame.list_tables, k)
                /\ dest \in DOMAIN fs[FileDb].tables
                /\ C8_Copied(fs[FileDb].tables[dest]))
                 => /\ fs[FileDb].tables[dest].cols = SourceCols(src)
                    /\ fs[FileDb].tables[dest].rows = SourceRows(src)
                    /\ C8_AllDirect(fs[FileDb].tables[dest])
    /\ C8_Exported =>
         \A t \in C8_ExportedTables :
            LET from == fs[frame.sqlite_path].tables[t]
                to == fs[with_suffix(frame.sqlite_path, "duckdb")].tables[t]
            IN /\ to.cols = from.cols
               /\ to.rows = from.rows
               /\ to.exprs = from.exprs

\* C8 amended: the table written has the columns, rows and values of its
\* source except that
\*  - save_to_mssql appends a column created_at (one timestamp in every row)
\*    when add_timestamp is set and the frame has no such column, and then
\*    puts a column id = 1..n in front when add_id is set and there is no
\*    column id;
\*  - load_sql_to_sqlite and load_mssql_to_duckdb write only the first
\*    top_n_rows rows when top_n_rows > 0;
\*  - load_mssql_to_duckdb writes character columns (and columns whose type
\*    it does not find) cleansed, not as stored; the other columns directly;
\*  - load_sqlite_to_duckdb writes only the first 1000 rows with debug.
C8_PassedThroughUpToOptions ==
    /\ C8_Saved =>
         LET df == frame.df
             ts == frame.add_timestamp /\ ~HasColumn(df, "created_at")
             id == frame.add_id /\ ~HasColumn(df, "id")
             out == server.tables[frame.table]
         IN /\ out.cols = (IF id THEN <<"id">> ELSE <<>>) \o df.cols
                            \o (IF ts THEN <<"created_at">> ELSE <<>>)
            /\ DOMAIN out.rows = DOMAIN df.rows
            /\ \A i \in DOMAIN df.rows :
                  out.rows[i] = (IF id THEN <<PyInt(i)>> ELSE <<>>) \o df.rows[i]
                                  \o (IF ts THEN <<PyStr("now")>> ELSE <<>>)
    /\ SqliteLoaded =>
         \A k \in DOMAIN frame.list_tables :
            LET tbl == fs[FileDb].tables[C3_ItemDest(frame.list_tables, k)]
                src == Resolve(table_sql(frame.list_tables[k],
                                         is_list_nested(frame.list_tables)))
            IN C3_Alone(frame.list_tables, k)
                 => /\ tbl.cols = SourceCols(src)
                    /\ tbl.rows = C8_Top(SourceRows(src), frame.top_n_rows)
                    /\ C8_AllDirect(tbl)
    /\ DuckLoaded =>
         \A k \in DOMAIN frame.list_tables :
            LET dest == C3_ItemDest(frame.list_tables, k)
                name == table_sql(frame.list_tables[k], is_list_nested(frame.list_tables))
                src == Resolve(name)
            IN (/\ C3_Alone(frame.list_tables, k)
                /\ dest \in DOMAIN fs[FileDb].tables
                /\ C8_Copied(fs[FileDb].tables[dest]))
                 => /\ fs[FileDb].tables[dest].cols = SourceCols(src)
                    /\ fs[FileDb].tables[dest].rows
                         = C8_Top(SourceRows(src), frame.top_n_rows)
                    /\ \A i \in DOMAIN SourceCols(src) :
                          LET found == TypeQuery(sql_schema(name), sql_table_name(name),
                                                 SourceCols(src)[i])
                          IN fs[FileDb].tables[dest].exprs[i]
                               = IF found = None \/ lower(found[1]) \in CharTypes
                                 THEN "cleansed" ELSE "direct"
    /\ C8_Exported =>
         \A t \in C8_ExportedTables :
            LET from == fs[frame.sqlite_path].tables[t]
                to == fs[with_suffix(frame.sqlite_path, "duckdb")].tables[t]
            IN /\ to.cols = from.cols
               /\ to.rows = IF frame.debug
                            THEN SubSeq(from.rows, 1, Min(1000, Len(from.rows)))
                            ELSE from.rows
               /\ to.exprs = from.exprs

\* load_mssql_to_duckdb has copied the first rows of dbo.t: its int column
\* directly, its nvarchar column cleansed
C8_Witness ==
    /\ DuckLoaded
    /\ frame.top_n_rows > 0
    /\ frame.list_tables = <<StrItem(T1("t"))>>
    /\ fs[FileDb].tables["t"].exprs = <<"direct", "cleansed">>
    /\ Len(fs[FileDb].tables["t"].rows) = frame.top_n_rows
    /\ frame.top_n_rows < src_n

-----------------------------------------------------------------------------
(* load_sqlite_to_parquet *)

\* the call has run the copy for path
C9_Copied(l, path) == \E e \in DOMAIN l : l[e] = Ev("copy", path)

\* C9: a call of load_sqlite_to_parquet that returns has written
\* <dir_local>/<table>.parquet, for a table the filter selects, exactly when
\* debug is off and the file was not there or overwrite is on; a file it has
\* written holds the table, and every other file is as it was: with
\* overwrite off an existing file is not modified, with debug on nothing is
\* written.
C9_WritesIffAllowed ==
    [][(frame'.fn = "load_sqlite_to_parquet" /\ ret' = RetNone("load_sqlite_to_parquet"))
         => LET src == fs[frame'.file_sqlite].tables
            IN /\ \A t \in DOMAIN src :
                    LET path == Path(frame'.dir_local, t, "parquet")
                        selected == frame'.table_filter = ""
                                    \/ (frame'.table_filter = "table_name == 'small'"
                                        /\ t = "small")
                    IN /\ C9_Copied(log', path)
                            <=> /\ selected
                                /\ ~frame'.debug
                                /\ (path \notin DOMAIN fs \/ frame'.overwrite)
                       /\ C9_Copied(log', path)
                            => /\ path \in DOMAIN fs'
                               /\ fs'[path].kind = "parquet"
                               /\ fs'[path].cols = src[t].cols
                               /\ fs'[path].rows = src[t].rows
                       /\ ~C9_Copied(log', path)
                            => /\ path \in DOMAIN fs' <=> path \in DOMAIN fs
                               /\ path \in DOMAIN fs => fs'[path] = fs[path]
               /\ frame'.debug
                    => \A p \in DOMAIN fs' : p[3] = "parquet" => p \in DOMAIN fs /\ fs'[p] = fs[p]]_vars

\* with overwrite off and debug off, the call wrote big.parquet, which was
\* not there, and left the old small.parquet alone
C9_Witness ==
    /\ frame.fn = "load_sqlite_to_parquet"
    /\ ret = RetNone("load_sqlite_to_parquet")
    /\ ~frame.overwrite
    /\ ~frame.debug
    /\ frame.table_filter = ""
    /\ C9_Copied(log, Path("pq", "big", "parquet"))
    /\ ~C9_Copied(log, Path("pq", "small", "parquet"))
    /\ fs[Path("pq", "small", "parquet")] = OldFile
    /\ fs[Path("pq", "big", "parquet")].kind = "parquet"

-----------------------------------------------------------------------------
(* find_key *)

\* C10 as stated: find_key searches the keyring for every key_id of at least
\* 6 characters, and prints the length error (returning None) only for a
\* key_id of fewer than 6 characters.
C10_SearchesFromSixCharacters ==
    frame.fn = "find_key"
      => /\ Len(frame.key_id) >= 6 => LogHas(log, "list_keys")
         /\ log = <<Ev("print", "key_id must be at least 6 characters long")>>
              => Len(frame.key_id) < 6 /\ ret = RetNone("find_key")

\* the keys that key_id matches, among those the call lists
C11_Matching ==
    {k \in DOMAIN list_keys(frame.check_private) :
        \/ Contains(list_keys(frame.check_private)[k].keyid, frame.key_id)
        \/ Contains(list_keys(frame.check_private)[k].fingerprint, frame.key_id)}

\* C11 as stated, for a key_id long enough to be searched: when a key id or
\* a fingerprint of a listed key contains key_id, find_key returns the key id
\* of a matching key, as a str; it returns None exactly when none contains it.
C11_ReturnsKeyIdAsStr ==
    (frame.fn = "find_key" /\ Len(frame.key_id) >= MinKeyIdLen)
      => /\ C11_Matching # {}
              => \E k \in C11_Matching :
                    ret = RetValue("find_key",
                                   PyStr(list_keys(frame.check_private)[k].keyid))
         /\ ret = RetNone("find_key") <=> C11_Matching = {}

-----------------------------------------------------------------------------
(* encrypt, decrypt *)

C12_GpgOps == {"gpg.encrypt", "gpg.encrypt_file", "gpg.decrypt", "gpg.decrypt_file"}
C12_FileOp(fn) == IF fn = "encrypt" THEN "gpg.encrypt_file" ELSE "gpg.decrypt_file"
C12_DataOp(fn) == IF fn = "encrypt" THEN "gpg.encrypt" ELSE "gpg.decrypt"

\* C12: encrypt and decrypt return None, with no gpg operation and nothing
\* written, when message and message_file_path are both empty or None; with
\* a message_file_path the one gpg operation is the file variant on that
\* path, whatever message is; otherwise it is the in-memory variant; and a
\* call in which a gpg operation ran never returns None: when it returns, it
\* returns the library's result, whether result.ok or not.
C12_ResultReturnedWheneverGpgRan ==
    [][frame'.fn \in {"encrypt", "decrypt"}
         => LET fn == frame'.fn
                nomsg == frame'.message = None \/ frame'.message = Some(PyStr(""))
                nopath == frame'.message_file_path = None
                          \/ frame'.message_file_path = Some(<<>>)
                ran == \E e \in DOMAIN log' : log'[e].op \in C12_GpgOps
            IN /\ (nomsg /\ nopath)
                    => ret' = RetNone(fn) /\ ~ran /\ fs' = fs
               /\ ~nopath
                    => log' = <<Ev(C12_FileOp(fn), frame'.message_file_path[1])>>
               /\ (nopath /\ ~nomsg)
                    => log' = <<Ev(C12_DataOp(fn), "data")>>
               /\ ran => ret' # RetNone(fn)
               /\ (ran /\ ret'.kind # "raise")
                    => ret'.kind = "value" /\ ret'.value.ok \in BOOLEAN]_vars

\* decrypt was given a message and the path of a file that is no encrypted
\* message: decrypt_file ran on the file and its result, not ok, was returned
C12_Witness ==
    /\ frame.fn = "decrypt"
    /\ frame.message = Some(Hello)
    /\ frame.message_file_path = Some(FileM)
    /\ log = <<Ev("gpg.decrypt_file", FileM)>>
    /\ ret = RetValue("decrypt", Result(FALSE, NoData))

-----------------------------------------------------------------------------
(* unpack_files_to_duckdb *)

\* the selected files of the last call: the directory's base names,
\* intersected with list_files when it is given, in sorted order
C13_Selected ==
    LET all == {p[2] : p \in {q \in DOMAIN fs : q[1] = frame.dir}}
    IN sorted(IF frame.list_files = None THEN all
              ELSE all \cap SeqToSet(frame.list_files[1]))

C13_ReadOps == {"read_csv", "read_parquet"}

\* C13: for a directory in which every selected name has a file of the
\* extension ext, unpack_files_to_duckdb with debug=False returns a tuple of
\* relations, one per selected file in sorted order, whether 0, 1 or more
\* files are selected; with debug=True it reads no file and returns the
\* string of the sorted, prefixed names.
C13_TupleForAnyNumberOfFiles ==
    (/\ frame.fn = "unpack_files_to_duckdb"
     /\ frame.ext \in {"csv", "parquet"}
     /\ DirPath(frame.dir) \in DOMAIN fs
     /\ \A i \in DOMAIN C13_Selected :
           Path(frame.dir, C13_Selected[i], frame.ext) \in DOMAIN fs)
      => IF frame.debug
         THEN /\ ret = RetValue("unpack_files_to_duckdb",
                                PyStr(JoinNames(frame.prefix, C13_Selected,
                                                Len(C13_Selected))))
              /\ \A e \in DOMAIN log : log[e].op \notin C13_ReadOps
         ELSE /\ ret.kind = "value"
              /\ "tuple" \in DOMAIN ret.value
              /\ Len(ret.value.tuple) = Len(C13_Selected)
              /\ \A i \in DOMAIN C13_Selected :
                    ret.value.tuple[i].relation
                      = Path(frame.dir, C13_Selected[i], frame.ext)

-----------------------------------------------------------------------------
(* load_file_to_duckdb *)

C14_Url == PathStr("https", "host", Path("", "u", "csv"))
C14_Reads == {"read_csv", "read_parquet", "read_excel"}

\* C14: load_file_to_duckdb raises FileNotFoundError, before any read, if
\* path is empty, or if path is not a URL (scheme and netloc both present)
\* and there is no such local file; for a URL the existence of a file is not
\* checked; and for a path whose extension is none of .csv, .txt, .parquet,
\* .xlsx the call ends in an error, without a call of con.from_df and without
\* a relation returned.
C14_NotFoundBeforeAnyRead ==
    frame.fn = "load_file_to_duckdb"
      => LET empty == frame.path = None \/ frame.path = Some(EmptyPath)
             p == frame.path[1]
             url == p.scheme # "" /\ p.netloc # ""
         IN /\ (empty \/ (~url /\ p.file \notin DOMAIN fs))
                 => /\ ret = RetRaise("load_file_to_duckdb", "FileNotFoundError")
                    /\ \A e \in DOMAIN log : log[e].op \notin C14_Reads
            /\ (~empty /\ url)
                 => /\ ~LogHas(log, "Path.exists")
                    /\ ret # RetRaise("load_file_to_duckdb", "FileNotFoundError")
            /\ (~empty /\ p.file[3] \notin {"csv", "txt", "parquet", "xlsx"})
                 => /\ ret.kind = "raise"
                    /\ ~LogHas(log, "from_df")

\* a .csv URL was read and returned as a relation, no file looked for
C14_Witness ==
    /\ frame.fn = "load_file_to_duckdb"
    /\ frame.path = Some(C14_Url)
    /\ C14_Url.file \notin DOMAIN fs
    /\ ~LogHas(log, "Path.exists")
    /\ ret = RetValue("load_file_to_duckdb", Relation("read_csv", C14_Url, DuckCon))

\* C15: for a path with "~" that denotes an existing .csv, .txt, .parquet or
\* .xlsx file under the user's home directory, load_file_to_duckdb expands
\* the path, loads the file and returns it as a relation.
C15_HomePathIsLoaded ==
    (/\ frame.fn = "load_file_to_duckdb"
     /\ frame.path = Some(LocalPath(TildeFile))
     /\ HomeFile \in DOMAIN fs)
      => /\ ret.kind = "value"
         /\ ret.value.relation.file \in {TildeFile, HomeFile}

-----------------------------------------------------------------------------
(* load_mssql_to_duckdb: the intermediate CSV files *)

\* the CSV files in .local
C16_CsvFiles(f) == {p \in DOMAIN f : p[1] = ".local" /\ p[3] = "csv"}

\* C16: in load_mssql_to_duckdb a table's CSV in .local is deleted only with
\* delete_csv_after=True and only by the step that has just copied its data
\* into DuckDB without an error, and that step does delete it; a step in
\* which bcp, the post-processing or COPY fails deletes no CSV, so a CSV that
\* was created is left in place; with delete_csv_after=False no CSV is ever
\* deleted; and after a step that got past the post-processing there is no
\* <csv>.tmp file.
C16_CsvDeletedOnlyAfterCopy ==
    [][LET csv == csv_path(frame.friendly)
           tmp == temp_csv_path(frame.friendly)
           new == SubSeq(log', Len(log) + 1, Len(log'))
           failed == LogHas(new, "except")
           copied == LogHas(new, "COPY") /\ ~failed
           gone == C16_CsvFiles(fs) \ C16_CsvFiles(fs')
       IN /\ gone # {}
               => /\ pc = "duck_bcp" /\ frame.delete_csv_after /\ copied
                  /\ gone = {csv}
                  /\ \E c \in DOMAIN new :
                        /\ new[c].op = "COPY"
                        /\ new[c].n = Len(fs'[frame.file_db].tables[frame.friendly].rows)
                        /\ c < Len(new)
                        /\ new[Len(new)] = Ev("os.remove", csv)
          /\ pc = "duck_bcp"
               => /\ (copied /\ frame.delete_csv_after) => csv \notin DOMAIN fs'
                  /\ (copied /\ ~frame.delete_csv_after) => csv \in DOMAIN fs'
                  /\ failed => gone = {} /\ (DOMAIN fs' \ DOMAIN fs) \subseteq {csv, tmp}
                  /\ LogHas(new, "os.replace") => tmp \notin DOMAIN fs'
          /\ (frame.fn = "load_mssql_to_duckdb" /\ ~frame.delete_csv_after)
               => gone = {}]_vars

\* with delete_csv_after=True the rows of dbo.t were copied and t.csv was
\* deleted, then bcp wrote t.csv anew for hist.t and COPY failed: t.csv is
\* still there, t.csv.tmp is not
C16_Witness ==
    /\ frame.fn = "load_mssql_to_duckdb"
    /\ frame.delete_csv_after
    /\ \E c \in DOMAIN log :
          /\ log[c].op = "COPY" /\ log[c].n > 0
          /\ log[c + 1] = Ev("os.remove", csv_path("t"))
    /\ log[Len(log)] = Except("duckdb.Error")
    /\ csv_path("t") \in DOMAIN fs
    /\ temp_csv_path("t") \notin DOMAIN fs

-----------------------------------------------------------------------------
(* load_mssql_to_duckdb: columns and their types *)

\* the DATA_TYPE the function finds for column k of the table it is at
C17_Found(name, k) ==
    TypeQuery(sql_schema(name), sql_table_name(name), SourceCols(Resolve(name))[k])

\* C17: the DuckDB table load_mssql_to_duckdb creates has exactly the
\* columns the source table returns, in their order; the type of each is the
\* image under the fixed map of the lower-cased DATA_TYPE found for it, or
\* VARCHAR when that type is not in the map or no type is found; and the bcp
\* SELECT list has the same columns in the same order.
C17_OneTypedColumnPerSourceColumn ==
    [][/\ (pc = "duck_for" /\ pc' = "duck_bcp")
            => LET name == frame'.table
                   cols == SourceCols(Resolve(name))
                   tbl == fs'[frame.file_db].tables[frame'.friendly]
               IN /\ tbl.cols = cols
                  /\ DOMAIN tbl.types = DOMAIN cols
                  /\ \A k \in DOMAIN cols :
                        LET found == C17_Found(name, k)
                        IN tbl.types[k] =
                             IF found = None THEN "VARCHAR"
                             ELSE IF lower(found[1]) \in DOMAIN sql_to_duckdb_type_map
                             THEN sql_to_duckdb_type_map[lower(found[1])]
                             ELSE "VARCHAR"
                  /\ [k \in DOMAIN frame'.columns |-> frame'.columns[k][1]] = cols
       /\ (pc = "duck_bcp" /\ csv_path(frame.friendly) \in DOMAIN fs'
                           /\ LogHas(SubSeq(log', Len(log) + 1, Len(log')), "os.replace"))
            => DOMAIN fs'[csv_path(frame.friendly)].exprs
                 = DOMAIN SourceCols(Resolve(frame.table))]_vars

\* the table for hist.t was created: bigint became BIGINT, and nchar, which
\* the map does not hold, became VARCHAR
C17_Witness ==
    /\ pc = "duck_bcp"
    /\ frame.table = T2("hist", "t")
    /\ fs[frame.file_db].tables["t"].cols = <<"a", "b">>
    /\ fs[frame.file_db].tables["t"].types = <<"BIGINT", "VARCHAR">>

\* the character string types of SQL Server
C18_CharacterTypes == {"char", "varchar", "nchar", "nvarchar", "text", "ntext"}

\* C18: in the bcp query of load_mssql_to_duckdb a column is selected with
\* NULL turned into '' and CR, LF and TAB removed if its type in the source
\* is a character or text type, and is selected as it is if its type is any
\* other.
C18_OnlyCharacterColumnsCleansed ==
    [][(pc = "duck_bcp" /\ csv_path(frame.friendly) \in DOMAIN fs'
          /\ LogHas(SubSeq(log', Len(log) + 1, Len(log')), "os.replace"))
         => LET types == SourceTypes(Resolve(frame.table))
                exprs == fs'[csv_path(frame.friendly)].exprs
            IN \A k \in DOMAIN types :
                  exprs[k] = IF lower(types[k]) \in C18_CharacterTypes
                             THEN "cleansed" ELSE "direct"]_vars

-----------------------------------------------------------------------------
(* the _meta table *)

\* a loader is at work, or has just raised, on a file it has created
C19_Loading ==
    /\ frame.fn \in Loaders
    /\ frame.file_db \in DOMAIN fs
    /\ fs[frame.file_db].kind \in {"sqlite", "duckdb"}

\* C19: when dict_meta is given, the database file a loader creates has a
\* table _meta with exactly one row, whose columns are the keys of dict_meta
\* in order and whose values are the values of dict_meta (their str() in
\* DuckDB); when dict_meta is None there is no table _meta.
C19_MetaIsOneRowOfTheDict ==
    C19_Loading
      => LET tables == fs[frame.file_db].tables
         IN IF frame.dict_meta = None
            THEN "_meta" \notin DOMAIN tables
            ELSE LET d == frame.dict_meta[1]
                 IN /\ "_meta" \in DOMAIN tables
                    /\ tables["_meta"].cols = [i \in DOMAIN d |-> d[i][1]]
                    /\ tables["_meta"].rows =
                         <<[i \in DOMAIN d |->
                              IF frame.fn = "load_mssql_to_duckdb"
                              THEN str(d[i][2]) ELSE d[i][2]]>>

-----------------------------------------------------------------------------
(* get_infisical_secrets, get_bitwarden_secrets *)

C20_ClientOps == {"InfisicalClient", "getSecret", "BitwardenClient",
                  "login_access_token", "get_by_ids"}

\* a variable the function needs is not in the environment, or is empty
C20_Unset(e, name) == name \notin DOMAIN e \/ e[name] = ""

\* C20: get_infisical_secrets and get_bitwarden_secrets return None, raising
\* nothing, constructing no client and contacting no service, whenever no
\* .env file could be loaded, or, after loading it, any of INF_CLIENT,
\* INF_SECRET, INF_PROJECT (for Bitwarden: BWS_ACCESS_TOKEN) is missing from
\* the environment or empty, or (Bitwarden) list_key_ids is None.
C20_NoneWithoutCredentials ==
    [][LET file == IF frame'.fn = "get_infisical_secrets" /\ frame'.env_path # <<>>
                   THEN frame'.env_path ELSE DotEnv
           unloaded == file \notin DOMAIN fs \/ DOMAIN fs[file].vars = {}
           unavailable ==
               IF frame'.fn = "get_infisical_secrets"
               THEN unloaded \/ \E i \in DOMAIN InfisicalVars : C20_Unset(env', InfisicalVars[i])
               ELSE unloaded \/ C20_Unset(env', "BWS_ACCESS_TOKEN")
                             \/ frame'.list_key_ids = None
       IN (frame'.fn \in {"get_infisical_secrets", "get_bitwarden_secrets"} /\ unavailable)
            => /\ ret' = RetNone(frame'.fn)
               /\ \A e \in DOMAIN log' : log'[e].op \notin C20_ClientOps]_vars

-----------------------------------------------------------------------------
(* load_sql_to_sqlite: the fetch loop *)

\* the library calls made since the query of the current item was run
C21_LoopCalls(l) ==
    LET runs == {e \in DOMAIN l : l[e].op = "execute"}
        last == CHOOSE e \in runs : \A f \in runs : f <= e
    IN SubSeq(l, last + 1, Len(l))

\* ceil(n / batchsize)
C21_Batches(n) == (n + batchsize - 1) \div batchsize

\* C21: the fetch loop of load_sql_to_sqlite ends for every source result;
\* every iteration writes the batch it fetched, empty or not, and the loop
\* is left after the first empty batch: for a result of n rows the loop that
\* ends this way has made exactly ceil(n / 10000) + 1 fetchmany calls and as
\* many to_sql writes, fetch and write in turn, the last pair with zero rows
\* and no pair before it with zero rows.
C21_FetchLoopEndsAfterFirstEmptyBatch ==
    /\ [][(pc = "sqlite_while" /\ pc' = "sqlite_for")
            => LET n == Len(SelectRows(frame.table, frame.top_n_rows))
                   calls == C21_LoopCalls(log')
                   k == C21_Batches(n) + 1
               IN /\ Len(calls) = 2 * k
                  /\ \A j \in 1..k :
                        /\ calls[2 * j - 1].op = "fetchmany"
                        /\ calls[2 * j].op = "to_sql"
                        /\ calls[2 * j].n = calls[2 * j - 1].n
                        /\ (calls[2 * j].n = 0) <=> (j = k)]_vars
    /\ (pc = "sqlite_while") ~> (pc # "sqlite_while")

\* a source of batchsize + 1 rows was loaded in three fetches and three
\* writes: a full batch, one row, none
C21_Witness ==
    /\ pc = "sqlite_for"
    /\ frame.list_tables = <<StrItem(T1("t"))>>
    /\ frame.top_n_rows = 0
    /\ src_n = batchsize + 1
    /\ LogHas(log, "execute")
    /\ C21_LoopCalls(log) = <<EvN("fetchmany", "t", batchsize), EvN("to_sql", "t", batchsize),
                              EvN("fetchmany", "t", 1), EvN("to_sql", "t", 1),
                              EvN("fetchmany", "t", 0), EvN("to_sql", "t", 0)>>

-----------------------------------------------------------------------------
(* load_sql_to_sqlite, load_mssql_to_duckdb: no clean-up, no retry *)

\* C22: a call of load_sql_to_sqlite or load_mssql_to_duckdb that gets past
\* the existence check creates file_db; no step of either function removes
\* the file; and however the call that created it ended, every later call
\* with that file_db returns None right after the existence check, leaving
\* the file, its contents and the open connections as they are.
C22_NoCleanUpNoRetry ==
    [][/\ FileDb \in DOMAIN fs => FileDb \in DOMAIN fs'
       /\ (pc = "idle" /\ FileDb \notin DOMAIN fs)
            => /\ FileDb \in DOMAIN fs'
               /\ fs'[FileDb].kind \in {"sqlite", "duckdb"}
       /\ (pc = "idle" /\ FileDb \in DOMAIN fs)
            => /\ fs' = fs /\ conns' = conns /\ pc' = "idle"
               /\ ret'.kind = "None" /\ ret'.fn \in Loaders
               /\ log' = <<Ev("os.path.exists", FileDb)>>]_vars

\* an earlier call created the file and ended in an error, its connection
\* still open; the call after it has returned at the existence check
C22_Witness ==
    /\ pc = "idle"
    /\ FileDb \in DOMAIN fs
    /\ fs[FileDb].kind \in {"sqlite", "duckdb"}
    /\ conns # {}
    /\ ret.kind = "None" /\ ret.fn \in Loaders
    /\ log = <<Ev("os.path.exists", FileDb)>>

====
